---------------------------- MODULE Spec2Model ----------------------------
(***************************************************************************)
(* SecureKeep: the end-to-end encryption engine (src/src/lib/encryption.ts) *)
(* and the code around it (API routes, auth store, notes grid).            *)
(*                                                                         *)
(* Data representation                                                     *)
(*   - a JavaScript string is a sequence of UTF-16 code units (naturals);  *)
(*   - an ArrayBuffer / Uint8Array is a sequence of bytes (0..255);        *)
(*   - a value that may throw / reject is a record [ok, val, err].         *)
(* Platform primitives (crypto.subtle, crypto.getRandomValues) are         *)
(* idealised; every idealisation is stated where it is made.               *)
(***************************************************************************)
EXTENDS Integers, Sequences, FiniteSets, TLC

(***************************************************************************)
(* Program constants                                                       *)
(***************************************************************************)
IV_LENGTH == 12
TAG_LENGTH == 16
HMAC_BLOCK == 64

(***************************************************************************)
(* Results of operations that may throw                                    *)
(***************************************************************************)
Ok(v) == [ok |-> TRUE, val |-> v, err |-> "none"]
Err(e) == [ok |-> FALSE, val |-> <<>>, err |-> e]

NotInitializedError == "Encryption service not initialized"
InvalidCharacterError == "InvalidCharacterError"
OperationError == "OperationError"
TypeError == "TypeError"

(***************************************************************************)
(* Sequence helpers                                                        *)
(***************************************************************************)
Slice(s, from, to) == [i \in 1..(IF to >= from THEN to - from + 1 ELSE 0) |-> s[from + i - 1]]
\* Uint8Array.prototype.slice(begin, end) with 0-based begin and exclusive end
U8Slice(s, begin, end) ==
    LET b == IF begin > Len(s) THEN Len(s) ELSE begin
        e == IF end > Len(s) THEN Len(s) ELSE end
    IN Slice(s, b + 1, e)

RECURSIVE Concat(_)
Concat(ss) == IF Len(ss) = 0 THEN <<>> ELSE Head(ss) \o Concat(Tail(ss))

(***************************************************************************)
(* btoa / atob (the platform's base64), as the HTML standard defines them  *)
(***************************************************************************)
chEq == 61
chPlus == 43
chSlash == 47

B64Char(i) ==
    IF i < 26 THEN 65 + i
    ELSE IF i < 52 THEN 97 + (i - 26)
    ELSE IF i < 62 THEN 48 + (i - 52)
    ELSE IF i = 62 THEN chPlus ELSE chSlash

B64Index(c) ==
    IF c >= 65 /\ c <= 90 THEN c - 65
    ELSE IF c >= 97 /\ c <= 122 THEN c - 97 + 26
    ELSE IF c >= 48 /\ c <= 57 THEN c - 48 + 52
    ELSE IF c = chPlus THEN 62
    ELSE IF c = chSlash THEN 63
    ELSE -1

IsAsciiWhitespace(c) == c \in {9, 10, 12, 13, 32}

RECURSIVE btoaFrom(_, _)
btoaFrom(b, i) ==
    LET n == Len(b) - i + 1
    IN IF n <= 0 THEN <<>>
       ELSE IF n = 1 THEN
            << B64Char(b[i] \div 4), B64Char((b[i] % 4) * 16), chEq, chEq >>
       ELSE IF n = 2 THEN
            << B64Char(b[i] \div 4),
               B64Char((b[i] % 4) * 16 + (b[i+1] \div 16)),
               B64Char((b[i+1] % 16) * 4), chEq >>
       ELSE << B64Char(b[i] \div 4),
               B64Char((b[i] % 4) * 16 + (b[i+1] \div 16)),
               B64Char((b[i+1] % 16) * 4 + (b[i+2] \div 64)),
               B64Char(b[i+2] % 64) >> \o btoaFrom(b, i + 3)

\* btoa(binary): every code unit of `binary` must be <= 255
btoa(binary) ==
    IF \E i \in 1..Len(binary) : binary[i] > 255
    THEN Err(InvalidCharacterError)
    ELSE Ok(btoaFrom(binary, 1))

RECURSIVE atobDecode(_, _)
atobDecode(d, i) ==
    LET n == Len(d) - i + 1
    IN IF n <= 0 THEN <<>>
       ELSE IF n = 2 THEN
            << B64Index(d[i]) * 4 + (B64Index(d[i+1]) \div 16) >>
       ELSE IF n = 3 THEN
            << B64Index(d[i]) * 4 + (B64Index(d[i+1]) \div 16),
               (B64Index(d[i+1]) % 16) * 16 + (B64Index(d[i+2]) \div 4) >>
       ELSE << B64Index(d[i]) * 4 + (B64Index(d[i+1]) \div 16),
               (B64Index(d[i+1]) % 16) * 16 + (B64Index(d[i+2]) \div 4),
               (B64Index(d[i+2]) % 4) * 64 + B64Index(d[i+3]) >> \o atobDecode(d, i + 4)

\* atob(data): the forgiving-base64 decode
atob(data) ==
    LET noWs == SelectSeq(data, LAMBDA c : ~IsAsciiWhitespace(c))
        n0 == Len(noWs)
        stripped ==
            IF n0 % 4 = 0 /\ n0 >= 1 /\ noWs[n0] = chEq
            THEN IF n0 >= 2 /\ noWs[n0 - 1] = chEq
                 THEN SubSeq(noWs, 1, n0 - 2)
                 ELSE SubSeq(noWs, 1, n0 - 1)
            ELSE noWs
    IN IF Len(stripped) % 4 = 1 THEN Err(InvalidCharacterError)
       ELSE IF \E i \in 1..Len(stripped) : B64Index(stripped[i]) = -1
            THEN Err(InvalidCharacterError)
       ELSE Ok(atobDecode(stripped, 1))

(***************************************************************************)
(* encryption.ts: arrayBufferToBase64 / base64ToArrayBuffer                *)
(***************************************************************************)
\* String.fromCharCode(bytes[i]) for each byte, then btoa; never throws
\* an arrayBufferToBase64 that keeps only the low seven bits of each byte
arrayBufferToBase64_sevenBit(buffer) == btoa([i \in DOMAIN buffer |-> buffer[i] % 128]).val

arrayBufferToBase64(buffer) == btoa(buffer).val

\* atob, then charCodeAt for each code unit; throws what atob throws
base64ToArrayBuffer(base64) == atob(base64)

(***************************************************************************)
(* TextEncoder.encode / TextDecoder.decode (UTF-8, as the Encoding         *)
(* standard defines them: unpaired surrogates are encoded as U+FFFD, the   *)
(* decoder replaces malformed input by U+FFFD and, with the default        *)
(* options used by the code, drops one leading byte order mark)            *)
(***************************************************************************)
REPLACEMENT == 65533
BOM == 65279

IsHighSurrogate(u) == u >= 55296 /\ u <= 56319
IsLowSurrogate(u) == u >= 56320 /\ u <= 57343

\* UTF-16 code units -> Unicode scalar values
RECURSIVE ScalarsFrom(_, _)
ScalarsFrom(s, i) ==
    IF i > Len(s) THEN <<>>
    ELSE IF IsHighSurrogate(s[i]) /\ i < Len(s) /\ IsLowSurrogate(s[i+1])
         THEN << 65536 + (s[i] - 55296) * 1024 + (s[i+1] - 56320) >> \o ScalarsFrom(s, i + 2)
    ELSE IF IsHighSurrogate(s[i]) \/ IsLowSurrogate(s[i])
         THEN << REPLACEMENT >> \o ScalarsFrom(s, i + 1)
    ELSE << s[i] >> \o ScalarsFrom(s, i + 1)

Utf8OfScalar(c) ==
    IF c < 128 THEN << c >>
    ELSE IF c < 2048 THEN << 192 + (c \div 64), 128 + (c % 64) >>
    ELSE IF c < 65536 THEN << 224 + (c \div 4096), 128 + ((c \div 64) % 64), 128 + (c % 64) >>
    ELSE << 240 + (c \div 262144), 128 + ((c \div 4096) % 64),
            128 + ((c \div 64) % 64), 128 + (c % 64) >>

\* new TextEncoder().encode(str)
TextEncoder_encode(str) ==
    LET sc == ScalarsFrom(str, 1)
    IN Concat([i \in 1..Len(sc) |-> Utf8OfScalar(sc[i])])

\* number of continuation bytes a lead byte asks for (0: ASCII, -1: invalid lead)
Utf8Needed(b) ==
    IF b < 128 THEN 0
    ELSE IF b >= 194 /\ b <= 223 THEN 1
    ELSE IF b >= 224 /\ b <= 239 THEN 2
    ELSE IF b >= 240 /\ b <= 244 THEN 3
    ELSE -1

\* the range allowed for the k-th continuation byte after lead byte b
Utf8Lower(b, k) == IF k = 1 /\ b = 224 THEN 160 ELSE IF k = 1 /\ b = 240 THEN 144 ELSE 128
Utf8Upper(b, k) == IF k = 1 /\ b = 237 THEN 159 ELSE IF k = 1 /\ b = 244 THEN 143 ELSE 191

\* how many of the `need` continuation bytes after position i are well formed
RECURSIVE Utf8GoodCont(_, _, _, _)
Utf8GoodCont(b, i, k, need) ==
    IF k > need THEN need
    ELSE IF i + k <= Len(b) /\ b[i + k] >= Utf8Lower(b[i], k) /\ b[i + k] <= Utf8Upper(b[i], k)
         THEN Utf8GoodCont(b, i, k + 1, need)
    ELSE k - 1

Utf8ScalarAt(b, i, need) ==
    IF need = 1 THEN (b[i] - 192) * 64 + (b[i+1] - 128)
    ELSE IF need = 2 THEN (b[i] - 224) * 4096 + (b[i+1] - 128) * 64 + (b[i+2] - 128)
    ELSE (b[i] - 240) * 262144 + (b[i+1] - 128) * 4096 + (b[i+2] - 128) * 64 + (b[i+3] - 128)

\* UTF-8 decode with replacement: bytes -> scalar values
RECURSIVE Utf8DecodeFrom(_, _)
Utf8DecodeFrom(b, i) ==
    IF i > Len(b) THEN <<>>
    ELSE LET need == Utf8Needed(b[i])
         IN IF need = 0 THEN << b[i] >> \o Utf8DecodeFrom(b, i + 1)
            ELSE IF need = -1 THEN << REPLACEMENT >> \o Utf8DecodeFrom(b, i + 1)
            ELSE LET good == Utf8GoodCont(b, i, 1, need)
                 IN IF good = need
                    THEN << Utf8ScalarAt(b, i, need) >> \o Utf8DecodeFrom(b, i + need + 1)
                    ELSE << REPLACEMENT >> \o Utf8DecodeFrom(b, i + good + 1)

CodeUnitsOfScalar(c) ==
    IF c < 65536 THEN << c >>
    ELSE << 55296 + ((c - 65536) \div 1024), 56320 + ((c - 65536) % 1024) >>

\* new TextDecoder().decode(buffer): fatal = false, ignoreBOM = false
TextDecoder_decode(buffer) ==
    LET start == IF Len(buffer) >= 3 /\ buffer[1] = 239 /\ buffer[2] = 187 /\ buffer[3] = 191
                 THEN 4 ELSE 1
        sc == Utf8DecodeFrom(buffer, start)
    IN Concat([i \in 1..Len(sc) |-> CodeUnitsOfScalar(sc[i])])

(***************************************************************************)
(* crypto.subtle, idealised.                                               *)
(*  - SHA-256 and PBKDF2-HMAC-SHA-256 are collision free on the model's    *)
(*    inputs: a digest / key is an encoding of what was hashed.  HMAC's    *)
(*    treatment of its key is kept: a key longer than the block is hashed  *)
(*    first, a shorter one is padded with zero bytes, so trailing zero     *)
(*    bytes of a password do not matter.                                   *)
(*  - A CryptoKey is an opaque handle; `material` is what it was derived   *)
(*    from (it is non-extractable, so the program never reads it).         *)
(*  - AES-GCM: the ciphertext has the length of the plaintext, followed by *)
(*    a 16-byte tag.  As in GCM the tag is a key-and-nonce dependent pad   *)
(*    combined with a function of the ciphertext that every single-byte    *)
(*    change of nonce or ciphertext alters.                                *)
(***************************************************************************)
RECURSIVE SumAt(_, _, _)
SumAt(b, i, step) == IF i > Len(b) THEN 0 ELSE b[i] + SumAt(b, i + step, step)

Fold(b, n) == [j \in 1..n |-> SumAt(b, j, n) % 256]

RECURSIVE StripTrailingZeros(_)
StripTrailingZeros(b) ==
    IF Len(b) > 0 /\ b[Len(b)] = 0 THEN StripTrailingZeros(SubSeq(b, 1, Len(b) - 1)) ELSE b

\* crypto.subtle.digest('SHA-256', data) / createHash('sha256'): 32 bytes
Sha256(data) == Fold(<< Len(data) % 256 >> \o data, 32)

HmacKey(k) == StripTrailingZeros(IF Len(k) > HMAC_BLOCK THEN Sha256(k) ELSE k)

NULL == [type |-> "null", material |-> <<>>]
CryptoKey(m) == [type |-> "secret", material |-> m]

\* importKey('raw', password, 'PBKDF2') then deriveKey(PBKDF2/SHA-256/600000 -> AES-GCM 256)
PBKDF2(passwordBytes, saltBytes) ==
    LET p == HmacKey(passwordBytes)
    IN CryptoKey(<< Len(p) >> \o p \o saltBytes)

KeyPad(key) == Fold(key.material, TAG_LENGTH)

KeyStream(key, iv, i) == (SumAt(key.material, 1, 1) + 3 * SumAt(iv, 1, 1) + 7 * i) % 256

GcmTag(key, iv, ct) ==
    LET pad == KeyPad(key)
        h == Fold(iv \o ct \o << Len(ct) % 256 >>, TAG_LENGTH)
    IN [j \in 1..TAG_LENGTH |-> (pad[j] + h[j]) % 256]

\* crypto.subtle.encrypt({name: 'AES-GCM', iv}, key, data)
subtle_encrypt(key, iv, data) ==
    IF key = NULL THEN Err(TypeError)
    ELSE LET ct == [i \in 1..Len(data) |-> (data[i] + KeyStream(key, iv, i)) % 256]
         IN Ok(ct \o GcmTag(key, iv, ct))

\* a decrypt that skips the check that the data holds at least a whole tag
subtle_decrypt_noLengthCheck(key, iv, data) ==
    IF key = NULL THEN Err(TypeError)
    ELSE IF Len(data) < TAG_LENGTH THEN Ok(<< >>)
    ELSE LET n == Len(data) - TAG_LENGTH
             ct == SubSeq(data, 1, n)
             tag == SubSeq(data, n + 1, Len(data))
         IN IF tag # GcmTag(key, iv, ct) THEN Err(OperationError)
            ELSE Ok([i \in 1..n |-> (ct[i] - KeyStream(key, iv, i)) % 256])

\* crypto.subtle.decrypt({name: 'AES-GCM', iv}, key, data)
subtle_decrypt(key, iv, data) ==
    IF key = NULL THEN Err(TypeError)
    ELSE IF Len(iv) = 0 \/ Len(data) < TAG_LENGTH THEN Err(OperationError)
    ELSE LET n == Len(data) - TAG_LENGTH
             ct == SubSeq(data, 1, n)
             tag == SubSeq(data, n + 1, Len(data))
         IN IF tag # GcmTag(key, iv, ct) THEN Err(OperationError)
            ELSE Ok([i \in 1..n |-> (ct[i] - KeyStream(key, iv, i)) % 256])

(***************************************************************************)
(* encryption.ts: key derivation and the cipher functions.  The nonce a    *)
(* call draws with crypto.getRandomValues is the parameter `iv`.           *)
(***************************************************************************)
\* a deriveKeyFromPassword that feeds the salt text to PBKDF2 without decoding it
deriveKeyFromPassword_rawSalt(password, salt) ==
    LET saltBuffer == base64ToArrayBuffer(salt)
    IN IF ~saltBuffer.ok THEN Err(saltBuffer.err)
       ELSE Ok(PBKDF2(TextEncoder_encode(password), TextEncoder_encode(salt)))

deriveKeyFromPassword(password, salt) ==
    LET saltBuffer == base64ToArrayBuffer(salt)
    IN IF ~saltBuffer.ok THEN Err(saltBuffer.err)
       ELSE Ok(PBKDF2(TextEncoder_encode(password), saltBuffer.val))

encryptBinary(data, key, iv) ==
    LET ciphertext == subtle_encrypt(key, iv, data)
    IN IF ~ciphertext.ok THEN Err(ciphertext.err)
       ELSE Ok(arrayBufferToBase64(iv \o ciphertext.val))

\* an encryptString that puts the nonce after the cipher output
encryptString_ivLast(plaintext, key, iv) ==
    LET encodedPlaintext == TextEncoder_encode(plaintext)
        ciphertext == subtle_encrypt(key, iv, encodedPlaintext)
    IN IF ~ciphertext.ok THEN Err(ciphertext.err)
       ELSE Ok(arrayBufferToBase64(ciphertext.val \o iv))

\* an encryptString that uses one fixed nonce instead of the one drawn
encryptString_fixedIv(plaintext, key, iv) ==
    LET fixed == [i \in 1..IV_LENGTH |-> 0]
        ciphertext == subtle_encrypt(key, fixed, TextEncoder_encode(plaintext))
    IN IF ~ciphertext.ok THEN Err(ciphertext.err)
       ELSE Ok(arrayBufferToBase64(fixed \o ciphertext.val))

encryptString(plaintext, key, iv) ==
    LET encodedPlaintext == TextEncoder_encode(plaintext)
        ciphertext == subtle_encrypt(key, iv, encodedPlaintext)
    IN IF ~ciphertext.ok THEN Err(ciphertext.err)
       ELSE Ok(arrayBufferToBase64(iv \o ciphertext.val))

\* a decryptBinary that swallows the failure and returns an empty buffer
decryptBinary_swallow(ciphertext, key) ==
    LET decoded == base64ToArrayBuffer(ciphertext)
    IN IF ~decoded.ok THEN Ok(<<>>)
       ELSE LET combined == decoded.val
                iv == U8Slice(combined, 0, IV_LENGTH)
                encryptedData == U8Slice(combined, IV_LENGTH, Len(combined))
                decrypted == subtle_decrypt(key, iv, encryptedData)
            IN IF ~decrypted.ok THEN Ok(<<>>) ELSE decrypted

decryptBinary(ciphertext, key) ==
    LET decoded == base64ToArrayBuffer(ciphertext)
    IN IF ~decoded.ok THEN Err(decoded.err)
       ELSE LET combined == decoded.val
                iv == U8Slice(combined, 0, IV_LENGTH)
                encryptedData == U8Slice(combined, IV_LENGTH, Len(combined))
            IN subtle_decrypt(key, iv, encryptedData)

\* a decryptString that swallows the failure and returns the empty string
decryptString_swallow(ciphertext, key) ==
    LET decoded == base64ToArrayBuffer(ciphertext)
    IN IF ~decoded.ok THEN Ok(<<>>)
       ELSE LET combined == decoded.val
                iv == U8Slice(combined, 0, IV_LENGTH)
                encryptedData == U8Slice(combined, IV_LENGTH, Len(combined))
                decrypted == subtle_decrypt(key, iv, encryptedData)
            IN IF ~decrypted.ok THEN Ok(<<>>)
               ELSE Ok(TextDecoder_decode(decrypted.val))

\* a decryptString that reports an input too short to hold nonce and tag with
\* an error of its own
decryptString_lengthError(ciphertext, key) ==
    LET decoded == base64ToArrayBuffer(ciphertext)
    IN IF ~decoded.ok THEN Err(decoded.err)
       ELSE LET combined == decoded.val
                iv == U8Slice(combined, 0, IV_LENGTH)
                encryptedData == U8Slice(combined, IV_LENGTH, Len(combined))
                decrypted == subtle_decrypt(key, iv, encryptedData)
            IN IF Len(combined) < IV_LENGTH + TAG_LENGTH THEN Err("RangeError")
               ELSE IF ~decrypted.ok THEN Err(decrypted.err)
               ELSE Ok(TextDecoder_decode(decrypted.val))

decryptString(ciphertext, key) ==
    LET decoded == base64ToArrayBuffer(ciphertext)
    IN IF ~decoded.ok THEN Err(decoded.err)
       ELSE LET combined == decoded.val
                iv == U8Slice(combined, 0, IV_LENGTH)
                encryptedData == U8Slice(combined, IV_LENGTH, Len(combined))
                decrypted == subtle_decrypt(key, iv, encryptedData)
            IN IF ~decrypted.ok THEN Err(decrypted.err)
               ELSE Ok(TextDecoder_decode(decrypted.val))

(***************************************************************************)
(* crypto.getRandomValues(new Uint8Array(IV_LENGTH)), idealised: a CSPRNG  *)
(* never returns a value it returned before.  `rng` is the set of values it *)
(* has not returned yet; NumIV bounds how many values it can hand out.     *)
(***************************************************************************)
NumIV == 3

Nonces(n) == { [i \in 1..IV_LENGTH |-> (17 * b + i) % 256] : b \in 0..(n - 1) }
IVPool == Nonces(NumIV)

getRandomValues(unused) == unused

(***************************************************************************)
(* Inputs of the bounded checks (JavaScript strings as code units)         *)
(***************************************************************************)
Str_a == << 97 >>
Str_aNul == << 97, 0 >>
Str_b == << 98 >>
Str_Hi == << 72, 105 >>
Str_eAcute == << 233 >>
Str_BomHi == << BOM, 72, 105 >>
Str_LoneSurrogate == << 55296 >>
Str_Emoji == << 55357, 56832 >>
Salt_QQpad == << 81, 81, 61, 61 >>      \* "QQ==" : byte 0x41
Salt_QQ == << 81, 81 >>                  \* "QQ"   : byte 0x41 (padding omitted)
Salt_QRpad == << 81, 82, 61, 61 >>      \* "QR==" : byte 0x41 (non-canonical)
Salt_QUI == << 81, 85, 73, 61 >>        \* "QUI=" : bytes 0x41 0x42
Salt_Bad == << 81 >>                     \* "Q"    : not base64

KdfPasswords == { Str_a, Str_aNul, Str_b }
KdfSalts == { Salt_QQpad, Salt_QQ, Salt_QRpad, Salt_QUI, Salt_Bad }

LabKeys == { deriveKeyFromPassword(Str_a, Salt_QQpad).val,
             deriveKeyFromPassword(Str_b, Salt_QQpad).val,
             deriveKeyFromPassword(Str_a, Salt_QUI).val }
LabTexts == { <<>>, Str_Hi, Str_eAcute, Str_BomHi, Str_LoneSurrogate, Str_Emoji }
LabData == { <<>>, << 0 >>, << 128, 255 >>, << 239, 187, 191, 65 >> }

FlipBit(byte, k) == IF (byte \div (2 ^ k)) % 2 = 1 THEN byte - 2 ^ k ELSE byte + 2 ^ k

\* the blob whose decoded bytes are those of `blob` with bit k of byte pos flipped
TamperBlob(blob, pos, k) ==
    LET bytes == base64ToArrayBuffer(blob).val
    IN arrayBufferToBase64([bytes EXCEPT ![pos] = FlipBit(bytes[pos], k)])

VARIABLES
    rng,        \* nonces crypto.getRandomValues has not returned yet
    kdfIn,      \* SpecKdf: the arguments of two deriveKeyFromPassword calls
    kdfOut,     \* SpecKdf: their results
    ck,         \* SpecCipher: the two keys at hand
    enc,        \* SpecCipher: the last encrypt call (function, plaintext, key, blob)
    dec,        \* SpecCipher: the last decrypt call (function, key, result)
    probe,      \* SpecBlob: a decrypt call on a blob that no encrypt call returned
    codec,      \* SpecCodec: a call of the base64 functions and what is built on them
    key,        \* EncryptionService.key, per service instance
    salt,       \* EncryptionService.salt, per service instance
    calls,      \* the EncryptionService calls in flight (suspended at an await)
    last,       \* the EncryptionService call that completed last, with its result
    lastLife,   \* per service: the last initialize() / clear() that completed
    encLog,     \* every blob an encrypt call of a service produced, in order
    budget,     \* how many more method calls the environment makes
    db,         \* the server's tables: users and notes
    srvHeld,    \* every (password, keySalt) pair a route handler has held together
    sent,       \* every note field a notes route has received, as [field, value]
    wire,       \* every field of every request body the client has sent
    auth,       \* the client's auth store
    form,       \* the auth form's submission in flight
    tasks,      \* the NotesGrid handlers in flight (save, delete, pin, color, fetchNotes)
    grid,       \* the mounted NotesGrid: notes, isSaving, isLoading, the editor dialog
    srv,        \* SpecServer: route handlers in flight, the last response, what was asked
    editor      \* SpecEditor: the note editor's image list and selections in flight

vars == << rng, kdfIn, kdfOut, ck, enc, dec, probe, codec, key, salt, calls, last, lastLife,
          encLog, budget, db, srvHeld, sent, wire, auth, form, tasks, grid, srv,
          editor >>
kdfVars == << kdfIn, kdfOut >>
cipherVars == << ck, enc, dec, probe, codec >>
svcVars == << key, salt, calls, last, lastLife, encLog, budget >>
appVars == << db, srvHeld, sent, wire, auth, form, tasks, grid, srv, editor >>

(***************************************************************************)
(* EncryptionService call records                                          *)
(***************************************************************************)
NullStr == << -1 >>     \* a string-typed field holding null

\* op   : the method; svc : the instance; pc : where the call is suspended
\* a1,a2: its arguments; r1 : the result of its first cipher call
\* life : the last lifecycle call (initialize / clear) completed on the instance
\*        when the call was made; life2: the same when the call completed
\* held : the key the instance held when the call was made
\* k1,k2: the keys handed to its first and second cipher call
\* pend : (initialize) the key being derived; out : the result
\* the value of k2 for a call that made no second cipher call
NoCipherCall == [type |-> "none", material |-> << >>]

NoLife == [op |-> "none", password |-> << >>, salt |-> << >>, wasReady |-> FALSE]
NoSvcCall ==
    [op |-> "none", svc |-> 0, pc |-> "idle", a1 |-> << >>, a2 |-> << >>, r1 |-> << >>,
     life |-> NoLife, life2 |-> NoLife, held |-> NULL, k1 |-> NULL, k2 |-> NoCipherCall,
     pend |-> NULL, out |-> Err("pending"), at |-> 0]
NoCall == [fn |-> "none", plain |-> <<>>, key |-> NULL, blob |-> <<>>,
           tampered |-> FALSE, out |-> Err("none")]
\* op: "encode" (bytes given) or "decode" (text given); out: what
\* base64ToArrayBuffer returned; str, bin, kdf: what decryptString,
\* decryptBinary and deriveKeyFromPassword returned for the same text
NoCodec == [op |-> "none", bytes |-> << >>, text |-> << >>, out |-> Err("none"),
            str |-> Err("none"), bin |-> Err("none"), kdf |-> Err("none")]
\* cause: why the blob of the call is not one an encrypt call returned
NoProbe == [fn |-> "none", cause |-> "none", key |-> NULL, blob |-> << >>,
            out |-> Err("none")]
NoResult == Err("not called")

(***************************************************************************)
(* SpecKdf: deriveKeyFromPassword on two argument pairs                    *)
(***************************************************************************)
(***************************************************************************)
(* Application records                                                     *)
(***************************************************************************)
\* the user object a route returns and the auth store keeps (null: NoUser)
NoUser == [id |-> 0, email |-> << >>, keySalt |-> << >>]
\* auth-store.ts: the store as created
AuthStoreInit == [user |-> NoUser, isAuthenticated |-> FALSE, isEncryptionReady |-> FALSE]
NoNote == [id |-> 0, title |-> << >>, content |-> << >>, isPinned |-> FALSE, images |-> << >>]
\* the auth form: h is the handler slot of the request it awaits
FormIdle == [pc |-> "idle", password |-> << >>, user |-> NoUser, pend |-> NULL, h |-> 0]
\* a NotesGrid handler in flight.  mounted: the NotesGrid instance that
\* started it is still rendered (a state setter of an unmounted instance
\* does nothing); userId, closure: user.id and notes of the render the
\* handler was created in; h: the handler slot of the request it awaits;
\* rows: the notes fetchNotes is decrypting.
NoTask ==
    [kind |-> "none", pc |-> "idle", mounted |-> FALSE, userId |-> 0, note |-> NoNote,
     title |-> << >>, content |-> << >>, encryptedImages |-> << >>, closure |-> << >>,
     h |-> 0, rows |-> << >>]
\* NotesGrid as it mounts: the notes state (id and isPinned of each note
\* shown), isSaving, isLoading (useState(true)), isEditorOpen and the id of
\* editingNote (0 for null and for a new note)
GridIdle == [notes |-> << >>, isSaving |-> FALSE, isLoading |-> TRUE,
             isEditorOpen |-> FALSE, editingNote |-> 0]
\* the database: the user and note tables, and the clock behind updatedAt
DbEmpty == [users |-> {}, notes |-> << >>, now |-> 0]

\* a request body; has: the fields a PUT body carries
NoBody ==
    [email |-> << >>, password |-> << >>, userId |-> 0, has |-> {}, title |-> << >>,
     content |-> << >>, isPinned |-> FALSE, images |-> << >>]
\* the response of a route, with the request fields the claims refer to
NoResponse ==
    [route |-> "none", status |-> 0, email |-> << >>, password |-> << >>, user |-> NoUser,
     id |-> 0, notes |-> << >>]
\* a route handler in flight: pc is the database call it makes next, or
\* "responded" once it has answered; awaited: the client that sent the
\* request still awaits the answer; id: params.id, or the userId of a GET
NoHandler ==
    [route |-> "none", pc |-> "idle", awaited |-> FALSE, id |-> 0, body |-> NoBody,
     resp |-> NoResponse]
\* handlers: the route handlers in flight; resp: the last response to a
\* request nobody awaits; signedUp: the (email, password) of every successful
\* signup; putImages: the (id, images) of every PUT that carried an images
\* array
SrvIdle == [handlers |-> << >>, resp |-> NoResponse, signedUp |-> {}, putImages |-> {}]
\* NoteEditor: the images state, and the handleImageSelect call in flight with
\* the images value of the render it was created in (closure)
EditorIdle ==
    [images |-> << >>, pc |-> "idle", closure |-> << >>, files |-> 0, newImages |-> << >>,
     nextId |-> 1]

\* the application variables of a specification that has no application
AppIdle ==
    /\ db = DbEmpty /\ srvHeld = {} /\ sent = {} /\ wire = {}
    /\ auth = AuthStoreInit /\ form = FormIdle /\ tasks = << >> /\ grid = GridIdle
    /\ srv = SrvIdle /\ editor = EditorIdle

CipherIdle == ck = << NULL, NULL >> /\ enc = NoCall /\ dec = NoCall /\ probe = NoProbe
              /\ codec = NoCodec

\* the service variables of a specification that has no EncryptionService
SvcIdle ==
    /\ key = << >> /\ salt = << >> /\ calls = << >> /\ lastLife = << >>
    /\ last = NoSvcCall /\ encLog = << >> /\ budget = 0

KdfIdle == kdfIn = << <<>>, <<>>, <<>>, <<>> >> /\ kdfOut = << NoResult, NoResult >>

KdfInit ==
    /\ rng = IVPool /\ AppIdle
    /\ CipherIdle
    /\ SvcIdle
    /\ \E p1 \in KdfPasswords, s1 \in KdfSalts, p2 \in KdfPasswords, s2 \in KdfSalts :
          kdfIn = << p1, s1, p2, s2 >>
    /\ kdfOut = << NoResult, NoResult >>

KdfDeriveFirst ==
    /\ kdfOut[1] = NoResult
    /\ kdfOut' = [kdfOut EXCEPT ![1] = deriveKeyFromPassword(kdfIn[1], kdfIn[2])]
    /\ UNCHANGED << rng, kdfIn, cipherVars, svcVars, appVars >>

KdfDeriveSecond ==
    /\ kdfOut[2] = NoResult
    /\ kdfOut' = [kdfOut EXCEPT ![2] = deriveKeyFromPassword(kdfIn[3], kdfIn[4])]
    /\ UNCHANGED << rng, kdfIn, cipherVars, svcVars, appVars >>

KdfNext == KdfDeriveFirst \/ KdfDeriveSecond

SpecKdf == KdfInit /\ [][KdfNext]_vars

(***************************************************************************)
(* SpecCipher: encryptString / encryptBinary under ck[1], then decryption  *)
(* of the blob (as produced, or with one bit flipped) under ck[1] or ck[2] *)
(***************************************************************************)
CipherInit ==
    /\ rng = IVPool
    /\ KdfIdle
    /\ SvcIdle
    /\ AppIdle
    /\ \E k1 \in LabKeys, k2 \in LabKeys : ck = << k1, k2 >>
    /\ enc = NoCall
    /\ dec = NoCall
    /\ probe = NoProbe
    /\ codec = NoCodec

CallEncryptString ==
    \E p \in LabTexts, iv \in getRandomValues(rng) :
        /\ enc.fn = "none"
        /\ rng' = rng \ {iv}
        /\ enc' = [NoCall EXCEPT !.fn = "encryptString", !.plain = p, !.key = ck[1],
                                 !.blob = encryptString(p, ck[1], iv).val]
        /\ dec' = NoCall
        /\ UNCHANGED << ck, probe, codec, kdfVars, svcVars, appVars >>

CallEncryptBinary ==
    \E d \in LabData, iv \in getRandomValues(rng) :
        /\ enc.fn = "none"
        /\ rng' = rng \ {iv}
        /\ enc' = [NoCall EXCEPT !.fn = "encryptBinary", !.plain = d, !.key = ck[1],
                                 !.blob = encryptBinary(d, ck[1], iv).val]
        /\ dec' = NoCall
        /\ UNCHANGED << ck, probe, codec, kdfVars, svcVars, appVars >>

DecFn(fn) == IF fn = "encryptString" THEN "decryptString" ELSE "decryptBinary"

Decrypt(fn, blob, k) ==
    IF fn = "encryptString" THEN decryptString(blob, k) ELSE decryptBinary(blob, k)

CallDecrypt ==
    \E k \in {ck[1], ck[2]} :
        /\ enc.fn # "none" /\ dec.fn = "none"
        /\ dec' = [NoCall EXCEPT !.fn = DecFn(enc.fn), !.key = k, !.out = Decrypt(enc.fn, enc.blob, k)]
        /\ UNCHANGED << rng, ck, enc, probe, codec, kdfVars, svcVars, appVars >>

CallDecryptTampered ==
    \E pos \in 1..Len(base64ToArrayBuffer(enc.blob).val), bit \in 0..7 :
        /\ enc.fn # "none" /\ dec.fn = "none"
        /\ dec' = [NoCall EXCEPT !.fn = DecFn(enc.fn), !.key = enc.key, !.tampered = TRUE,
                                 !.out = Decrypt(enc.fn, TamperBlob(enc.blob, pos, bit), enc.key)]
        /\ UNCHANGED << rng, ck, enc, probe, codec, kdfVars, svcVars, appVars >>

CipherNext == CallEncryptString \/ CallEncryptBinary \/ CallDecrypt \/ CallDecryptTampered

SpecCipher == CipherInit /\ [][CipherNext]_vars

(***************************************************************************)
(* SpecBlob: decryptString / decryptBinary applied to blobs that no        *)
(* encrypt call returned: short or undecodable text, a truncated blob, a   *)
(* blob with a flipped bit, a genuine blob under another key.              *)
(***************************************************************************)
Blob_11Bytes == arrayBufferToBase64([i \in 1..11 |-> 16 * i])
ShortBlobs == { << >>, Salt_QQpad, Salt_QUI, Salt_Bad, Str_eAcute, Blob_11Bytes }

\* the decoded positions a flipped bit is tried at: first and last byte of the
\* nonce, first byte of the ciphertext with tag, last byte of the tag
TamperAt(blob) ==
    { 1, IV_LENGTH, IV_LENGTH + 1, Len(base64ToArrayBuffer(blob).val) }

Probed(f, cause, k, blob) ==
    [fn |-> DecFn(f), cause |-> cause, key |-> k, blob |-> blob, out |-> Decrypt(f, blob, k)]

ProbeShort ==
    \E f \in {"encryptString", "encryptBinary"}, blob \in ShortBlobs, k \in {ck[1], ck[2]} :
        /\ probe.fn = "none"
        /\ probe' = Probed(f, "short", k, blob)
        /\ UNCHANGED << rng, ck, enc, dec, codec, kdfVars, svcVars, appVars >>

ProbeTruncated ==
    \E n \in 0..(Len(enc.blob) - 1) :
        /\ enc.fn # "none" /\ probe.fn = "none"
        /\ probe' = Probed(enc.fn, "truncated", enc.key, SubSeq(enc.blob, 1, n))
        /\ UNCHANGED << rng, ck, enc, dec, codec, kdfVars, svcVars, appVars >>

ProbeTampered ==
    \E pos \in TamperAt(enc.blob), bit \in {0, 7} :
        /\ enc.fn # "none" /\ probe.fn = "none"
        /\ probe' = Probed(enc.fn, "tampered", enc.key, TamperBlob(enc.blob, pos, bit))
        /\ UNCHANGED << rng, ck, enc, dec, codec, kdfVars, svcVars, appVars >>

ProbeWrongKey ==
    /\ enc.fn # "none" /\ probe.fn = "none" /\ ck[2] # enc.key
    /\ probe' = Probed(enc.fn, "wrongKey", ck[2], enc.blob)
    /\ UNCHANGED << rng, ck, enc, dec, codec, kdfVars, svcVars, appVars >>

BlobNext ==
    \/ CallEncryptString \/ CallEncryptBinary
    \/ ProbeShort \/ ProbeTruncated \/ ProbeTampered \/ ProbeWrongKey

SpecBlob == CipherInit /\ [][BlobNext]_vars

(***************************************************************************)
(* SpecCodec: arrayBufferToBase64 applied to byte sequences, and           *)
(* base64ToArrayBuffer (with decryptString, decryptBinary and              *)
(* deriveKeyFromPassword, which call it first) applied to arbitrary text.  *)
(***************************************************************************)
MaxBytes == 3
MaxText == 4
CodecByteValues == { 0, 1, 65, 127, 128, 255 }
CodecBytes == UNION { [1..n -> CodecByteValues] : n \in 0..MaxBytes }
\* "Q", "R", "=", " ", "!", U+00E9
CodecChars == { 81, 82, 61, 32, 33, 233 }
CodecTexts == UNION { [1..n -> CodecChars] : n \in 0..MaxText }

CodecInit ==
    /\ rng = IVPool /\ KdfIdle /\ CipherIdle /\ SvcIdle /\ AppIdle

CodecEncode ==
    \E b \in CodecBytes :
        /\ codec.op = "none"
        /\ codec' = [NoCodec EXCEPT !.op = "encode", !.bytes = b,
                                    !.text = arrayBufferToBase64(b),
                                    !.out = base64ToArrayBuffer(arrayBufferToBase64(b))]
        /\ UNCHANGED << rng, ck, enc, dec, probe, kdfVars, svcVars, appVars >>

CodecDecode ==
    \E t \in CodecTexts, k \in LabKeys, password \in KdfPasswords :
        /\ codec.op = "none"
        /\ codec' = [NoCodec EXCEPT !.op = "decode", !.text = t,
                                    !.out = base64ToArrayBuffer(t),
                                    !.str = decryptString(t, k),
                                    !.bin = decryptBinary(t, k),
                                    !.kdf = deriveKeyFromPassword(password, t)]
        /\ UNCHANGED << rng, ck, enc, dec, probe, kdfVars, svcVars, appVars >>

CodecNext == CodecEncode \/ CodecDecode

SpecCodec == CodecInit /\ [][CodecNext]_vars

(***************************************************************************)
(* encryption.ts: class EncryptionService.  The methods, as functions of   *)
(* the held key (this.key) at the moment the code reads it.                *)
(***************************************************************************)
\* an isInitialized that reports a key whether or not one is held
isInitialized_always(k) == TRUE

isInitialized(k) == k # NULL

\* initialize: await deriveKeyFromPassword(password, salt)
initialize_derive(password, slt) == deriveKeyFromPassword(password, slt)

\* an initialize that keeps a key the service already holds
initialize_keepHeld(held, derived) == IF held = NULL THEN derived ELSE held

\* initialize: this.key = <the derived key>
initialize_assign(held, derived) == derived

\* an encryptLabel without the `if (!this.key) throw` guard
encryptLabel_noGuard(k, name, iv) == encryptString(name, k, iv)

encryptLabel(k, name, iv) ==
    IF k = NULL THEN Err(NotInitializedError) ELSE encryptString(name, k, iv)

decryptLabel(k, name) ==
    IF k = NULL THEN Err(NotInitializedError) ELSE decryptString(name, k)

encryptImage(k, imageData, iv) ==
    IF k = NULL THEN Err(NotInitializedError) ELSE encryptBinary(imageData, k, iv)

decryptImage(k, encryptedData) ==
    IF k = NULL THEN Err(NotInitializedError) ELSE decryptBinary(encryptedData, k)

\* encryptNote, up to its first await: the guard and the title
encryptNote_title(k, title, iv) ==
    IF k = NULL THEN Err(NotInitializedError) ELSE encryptString(title, k, iv)

\* encryptNote, after the first await: the content, under this.key as it is then
encryptNote_content(k, content, iv) == encryptString(content, k, iv)

\* decryptNote, up to its first await: the guard and the title
decryptNote_title(k, title) ==
    IF k = NULL THEN Err(NotInitializedError) ELSE decryptString(title, k)

\* decryptNote, after the first await: content ? decryptString(content, this.key) : ''
decryptNote_content(k, content) ==
    IF content = <<>> THEN Ok(<<>>) ELSE decryptString(content, k)

(***************************************************************************)
(* The EncryptionService state machine.  A call that awaits (initialize,   *)
(* encryptNote, decryptNote) occupies a slot of `calls` between its steps; *)
(* the other methods read this.key once, when called, and are one step.    *)
(***************************************************************************)
MaxInFlight == 2

Str_pwA == << 112, 119, 65 >>      \* "pwA"
Str_pwB == << 112, 119, 66 >>      \* "pwB"
SvcPasswords == { Str_pwA, Str_pwB }
SvcSalts == { Salt_QQpad, Salt_Bad }
SvcTitles == { Str_Hi, Str_BomHi }
SvcContents == { Str_eAcute }
SvcImages == { << 0, 255 >> }
SvcLabels == { Str_Hi }

Services == DOMAIN key
Slots == DOMAIN calls
Ready(s) == lastLife[s].op = "initialize"
FreeSlot(c) == calls[c].op = "none" /\ \A d \in Slots : d < c => calls[d].op # "none"

LoggedBlobs == { encLog[i].blob : i \in 1..Len(encLog) }
LogEntry(s, fn, plain, k, blob) ==
    [svc |-> s, life |-> lastLife[s], fn |-> fn, plain |-> plain, key |-> k, blob |-> blob]

\* the record of a call made on service s with the key it holds now; at is
\* the number of calls the environment could still make when it was invoked,
\* so of two calls the one with the smaller at was invoked later
Called(op, s, a1, a2) ==
    [NoSvcCall EXCEPT !.op = op, !.svc = s, !.a1 = a1, !.a2 = a2,
                      !.life = lastLife[s], !.life2 = lastLife[s],
                      !.held = key[s], !.k1 = key[s], !.at = budget]
Done(call, out) == [call EXCEPT !.pc = "done", !.out = out]

MaxCalls == 4

SvcBase ==
    /\ rng = IVPool /\ KdfIdle /\ CipherIdle /\ AppIdle
    /\ last = NoSvcCall /\ encLog = << >> /\ budget = MaxCalls

\* one service instance (the singleton), MaxInFlight overlapping calls
ServiceInit ==
    /\ SvcBase
    /\ key = << NULL >> /\ salt = << NullStr >> /\ lastLife = << NoLife >>
    /\ calls = [c \in 1..MaxInFlight |-> NoSvcCall]

\* two service instances (two sessions), calls made one after the other
SessionsInit ==
    /\ SvcBase
    /\ key = << NULL, NULL >> /\ salt = << NullStr, NullStr >>
    /\ lastLife = << NoLife, NoLife >>
    /\ calls = << NoSvcCall >>

\* the environment makes one more method call
Spend == budget > 0 /\ budget' = budget - 1

Initialize(s) ==
    \E c \in Slots, password \in SvcPasswords, slt \in SvcSalts :
        /\ FreeSlot(c) /\ Spend
        /\ salt' = [salt EXCEPT ![s] = slt]
        /\ LET d == initialize_derive(password, slt)
               call == [Called("initialize", s, password, slt) EXCEPT !.k1 = NULL]
           IN IF d.ok
              THEN /\ calls' = [calls EXCEPT ![c] = [call EXCEPT !.pc = "derive", !.pend = d.val]]
                   /\ UNCHANGED last
              ELSE /\ last' = Done(call, Err(d.err))
                   /\ UNCHANGED calls
        /\ UNCHANGED << key, lastLife, encLog, rng, kdfVars, cipherVars, appVars >>

InitializeDone(c) ==
    /\ calls[c].op = "initialize"
    /\ key' = [key EXCEPT ![calls[c].svc] = initialize_assign(@, calls[c].pend)]
    /\ lastLife' = [lastLife EXCEPT ![calls[c].svc] =
                       [op |-> "initialize", password |-> calls[c].a1,
                        salt |-> calls[c].a2, wasReady |-> calls[c].life.op = "initialize"]]
    /\ last' = Done(calls[c], Ok(<<>>))
    /\ calls' = [calls EXCEPT ![c] = NoSvcCall]
    /\ UNCHANGED << salt, encLog, rng, budget, kdfVars, cipherVars, appVars >>

Clear(s) ==
    /\ Spend
    /\ key' = [key EXCEPT ![s] = NULL]
    /\ salt' = [salt EXCEPT ![s] = NullStr]
    /\ lastLife' = [lastLife EXCEPT ![s] = [NoLife EXCEPT !.op = "clear"]]
    /\ last' = Done([Called("clear", s, <<>>, <<>>) EXCEPT !.k1 = NULL], Ok(<<>>))
    /\ UNCHANGED << calls, encLog, rng, kdfVars, cipherVars, appVars >>

IsInitialized(s) ==
    /\ Spend
    /\ last' = Done([Called("isInitialized", s, <<>>, <<>>) EXCEPT !.k1 = NULL],
                    Ok(<< isInitialized(key[s]) >>))
    /\ UNCHANGED << key, salt, lastLife, calls, encLog, rng, kdfVars, cipherVars, appVars >>

\* a one-step encrypt method: fn is "image" or "label".  The nonce is drawn
\* inside encryptString / encryptBinary, so only when the guard has passed.
EncryptOne(s, op, fn, plain) ==
    \E iv \in IF key[s] = NULL THEN { << >> } ELSE getRandomValues(rng) :
        LET r == IF fn = "image" THEN encryptImage(key[s], plain, iv)
                                 ELSE encryptLabel(key[s], plain, iv)
        IN /\ rng' = IF key[s] = NULL THEN rng ELSE rng \ {iv}
           /\ last' = Done(Called(op, s, plain, <<>>), r)
           /\ encLog' = IF r.ok THEN Append(encLog, LogEntry(s, fn, plain, key[s], r.val))
                                ELSE encLog

EncryptImage(s) ==
    \E d \in SvcImages :
        /\ Spend
        /\ EncryptOne(s, "encryptImage", "image", d)
        /\ UNCHANGED << key, salt, lastLife, calls, kdfVars, cipherVars, appVars >>

EncryptLabel(s) ==
    \E n \in SvcLabels :
        /\ Spend
        /\ EncryptOne(s, "encryptLabel", "label", n)
        /\ UNCHANGED << key, salt, lastLife, calls, kdfVars, cipherVars, appVars >>

DecryptImage(s) ==
    \E b \in LoggedBlobs \cup {Str_Hi} :
        /\ Spend
        /\ last' = Done(Called("decryptImage", s, b, <<>>), decryptImage(key[s], b))
        /\ UNCHANGED << key, salt, lastLife, calls, encLog, rng, kdfVars, cipherVars, appVars >>

\* a decryptLabel that drops the held key when the blob is rejected
DecryptLabel_clearsOnFailure(s) ==
    \E b \in LoggedBlobs \cup {Str_Hi} :
        LET r == decryptLabel(key[s], b)
        IN /\ Spend
           /\ last' = Done(Called("decryptLabel", s, b, <<>>), r)
           /\ key' = IF r.ok THEN key ELSE [key EXCEPT ![s] = NULL]
           /\ UNCHANGED << salt, lastLife, calls, encLog, rng, kdfVars, cipherVars, appVars >>

DecryptLabel(s) ==
    \E b \in LoggedBlobs \cup {Str_Hi} :
        /\ Spend
        /\ last' = Done(Called("decryptLabel", s, b, <<>>), decryptLabel(key[s], b))
        /\ UNCHANGED << key, salt, lastLife, calls, encLog, rng, kdfVars, cipherVars, appVars >>

EncryptNote(s) ==
    \E c \in Slots, title \in SvcTitles, content \in SvcContents,
       iv \in IF key[s] = NULL THEN { << >> } ELSE getRandomValues(rng) :
        LET r == encryptNote_title(key[s], title, iv)
            call == Called("encryptNote", s, title, content)
        IN /\ FreeSlot(c) /\ Spend
           /\ rng' = IF key[s] = NULL THEN rng ELSE rng \ {iv}
           /\ IF r.ok
              THEN /\ encLog' = Append(encLog, LogEntry(s, "title", title, key[s], r.val))
                   /\ calls' = [calls EXCEPT ![c] = [call EXCEPT !.pc = "content", !.r1 = r.val]]
                   /\ UNCHANGED last
              ELSE /\ last' = Done(call, r)
                   /\ UNCHANGED << calls, encLog >>
           /\ UNCHANGED << key, salt, lastLife, kdfVars, cipherVars, appVars >>

\* an encryptNote whose result takes the title from a field shared by all
\* calls (the title encrypted last) instead of from its own first cipher call
EncryptNoteContent_sharedTitle(c) ==
    \E iv \in getRandomValues(rng) :
        LET call == calls[c]
            k == key[call.svc]
            r == encryptNote_content(k, call.a2, iv)
            titles == { i \in 1..Len(encLog) : encLog[i].fn = "title" }
            shared == encLog[CHOOSE i \in titles : \A j \in titles : j <= i].blob
        IN /\ call.op = "encryptNote"
           /\ rng' = rng \ {iv}
           /\ encLog' = IF r.ok
                        THEN Append(encLog, LogEntry(call.svc, "content", call.a2, k, r.val))
                        ELSE encLog
           /\ last' = Done([call EXCEPT !.k2 = k, !.life2 = lastLife[call.svc]],
                           IF r.ok THEN Ok(<< shared, r.val >>) ELSE Err(r.err))
           /\ calls' = [calls EXCEPT ![c] = NoSvcCall]
           /\ UNCHANGED << key, salt, lastLife, budget, kdfVars, cipherVars, appVars >>

EncryptNoteContent(c) ==
    \E iv \in getRandomValues(rng) :
        LET call == calls[c]
            k == key[call.svc]
            r == encryptNote_content(k, call.a2, iv)
        IN /\ call.op = "encryptNote"
           /\ rng' = rng \ {iv}
           /\ encLog' = IF r.ok
                        THEN Append(encLog, LogEntry(call.svc, "content", call.a2, k, r.val))
                        ELSE encLog
           /\ last' = Done([call EXCEPT !.k2 = k, !.life2 = lastLife[call.svc]],
                           IF r.ok THEN Ok(<< call.r1, r.val >>) ELSE Err(r.err))
           /\ calls' = [calls EXCEPT ![c] = NoSvcCall]
           /\ UNCHANGED << key, salt, lastLife, budget, kdfVars, cipherVars, appVars >>

DecryptNote(s) ==
    \E c \in Slots, title \in LoggedBlobs \cup {Str_Hi}, content \in LoggedBlobs \cup {<<>>} :
        /\ FreeSlot(c) /\ Spend
        /\ LET r == decryptNote_title(key[s], title)
               call == Called("decryptNote", s, title, content)
           IN IF r.ok
              THEN /\ calls' = [calls EXCEPT ![c] = [call EXCEPT !.pc = "content", !.r1 = r.val]]
                   /\ UNCHANGED last
              ELSE /\ last' = Done(call, Err(r.err))
                   /\ UNCHANGED calls
        /\ UNCHANGED << key, salt, lastLife, encLog, rng, kdfVars, cipherVars, appVars >>

DecryptNoteContent(c) ==
    LET call == calls[c]
        k == key[call.svc]
        r == decryptNote_content(k, call.a2)
    IN /\ call.op = "decryptNote"
       /\ last' = Done([call EXCEPT !.k2 = IF call.a2 = <<>> THEN NoCipherCall ELSE k,
                                    !.life2 = lastLife[call.svc]],
                       IF r.ok THEN Ok(<< call.r1, r.val >>) ELSE Err(r.err))
       /\ calls' = [calls EXCEPT ![c] = NoSvcCall]
       /\ UNCHANGED << key, salt, lastLife, encLog, rng, budget, kdfVars, cipherVars, appVars >>

SvcNext ==
    \/ \E s \in Services : Initialize(s)
    \/ \E s \in Services : Clear(s)
    \/ \E s \in Services : IsInitialized(s)
    \/ \E s \in Services : EncryptNote(s)
    \/ \E s \in Services : DecryptNote(s)
    \/ \E s \in Services : EncryptImage(s)
    \/ \E s \in Services : DecryptImage(s)
    \/ \E s \in Services : EncryptLabel(s)
    \/ \E s \in Services : DecryptLabel(s)
    \/ \E c \in Slots : InitializeDone(c)
    \/ \E c \in Slots : EncryptNoteContent(c)
    \/ \E c \in Slots : DecryptNoteContent(c)

SpecService == ServiceInit /\ [][SvcNext]_vars
SpecSessions == SessionsInit /\ [][SvcNext]_vars

(***************************************************************************)
(* The server: server-crypto.ts and the auth and notes routes, as          *)
(* functions of the table they read and the request body.                  *)
(***************************************************************************)
NumSalt == 2

\* String.prototype.toLowerCase on ASCII text
toLowerCase(str) == [i \in DOMAIN str |-> IF str[i] \in 65..90 THEN str[i] + 32 ELSE str[i]]

\* server-crypto.ts generateSalt: randomBytes(16).toString('base64'); the values
\* randomBytes can return are bounded by NumSalt
generateSalt ==
    { arrayBufferToBase64([i \in 1..16 |-> (31 * b + i) % 256]) : b \in 1..NumSalt }

\* server-crypto.ts hashPassword: createHash('sha256').update(password).digest('base64')
hashPassword(password) == arrayBufferToBase64(Sha256(TextEncoder_encode(password)))

PublicUser(row) == [id |-> row.id, email |-> row.email, keySalt |-> row.keySalt]
Response(status, user, users) == [status |-> status, user |-> user, users |-> users]

\* a db.user.create that, for an email that is already registered, replaces
\* the stored row by one with the freshly generated salt
signup_POST_upsert(users, body, keySalt) ==
    LET old == { u \in users : u.email = toLowerCase(body.email) }
        row == [id |-> IF old = {} THEN Cardinality(users) + 1
                                   ELSE (CHOOSE u \in old : TRUE).id,
                email |-> toLowerCase(body.email),
                passwordHash |-> hashPassword(body.password \o keySalt),
                keySalt |-> keySalt]
    IN Response(200, PublicUser(row), (users \ old) \cup {row})

\* POST /api/auth/signup up to and including `await db.user.findUnique`: the
\* status of the early return, or 0 when the handler goes on
signup_POST_findUnique(users, body) ==
    IF body.email = << >> \/ body.password = << >> THEN 400
    ELSE IF Len(body.password) < 8 THEN 400
    ELSE IF \E u \in users : u.email = toLowerCase(body.email) THEN 400
    ELSE 0

\* POST /api/auth/signup from generateSalt() on: `await db.user.create`.
\* email is the key of findUnique, hence unique: a create for an email that
\* has been registered since the lookup throws, and the catch answers 500.
signup_POST_create(users, body, keySalt) ==
    LET row == [id |-> Cardinality(users) + 1,
                email |-> toLowerCase(body.email),
                passwordHash |-> hashPassword(body.password \o keySalt),
                keySalt |-> keySalt]
    IN IF \E u \in users : u.email = row.email
       THEN Response(500, NoUser, users)
       ELSE Response(200, PublicUser(row), users \cup {row})

\* a login route that finds the user and does not verify the password
login_POST_noVerify(users, body) ==
    IF body.email = << >> \/ body.password = << >> THEN Response(400, NoUser, users)
    ELSE IF ~\E u \in users : u.email = toLowerCase(body.email)
         THEN Response(401, NoUser, users)
    ELSE Response(200, PublicUser(CHOOSE u \in users : u.email = toLowerCase(body.email)),
                  users)

\* POST /api/auth/login
login_POST(users, body) ==
    IF body.email = << >> \/ body.password = << >> THEN Response(400, NoUser, users)
    ELSE IF ~\E u \in users : u.email = toLowerCase(body.email)
         THEN Response(401, NoUser, users)
    ELSE LET user == CHOOSE u \in users : u.email = toLowerCase(body.email)
             passwordHash == hashPassword(body.password \o user.keySalt)
         IN IF passwordHash # user.passwordHash THEN Response(401, NoUser, users)
            ELSE Response(200, PublicUser(user), users)

\* ORDER BY with a strict order: before[i, j] says that the element at
\* position i sorts ahead of the one at position j; elements that the order
\* does not separate keep their relative position
OrderBy(s, before) ==
    LET rank(j) == Cardinality({ i \in DOMAIN s :
                                   \/ before[i, j]
                                   \/ (~before[j, i] /\ i < j) }) + 1
    IN [k \in DOMAIN s |-> s[CHOOSE j \in DOMAIN s : rank(j) = k]]

\* include: { images: { orderBy: { order: 'asc' } } }
OrderAsc(a, b) == a.order < b.order
WithImages(note) ==
    LET images == note.images
    IN [note EXCEPT !.images =
          OrderBy(images, [i, j \in DOMAIN images |-> OrderAsc(images[i], images[j])])]

\* orderBy: [{ isPinned: 'desc' }, { updatedAt: 'desc' }]
PinnedThenUpdatedDesc(a, b) ==
    \/ a.isPinned /\ ~b.isPinned
    \/ a.isPinned = b.isPinned /\ a.updatedAt > b.updatedAt

\* POST /api/notes: db.note.create.  d is the database: its note table, and
\* the clock that stamps updatedAt on every create and update of a note
\* (every write is taken to fall in a millisecond of its own).  color and
\* labels carry no user content and are left out of the body.
notes_POST(d, body) ==
    IF body.userId = 0 \/ body.title = << >> THEN d
    ELSE [d EXCEPT
            !.now = @ + 1,
            !.notes = Append(@, [id |-> Len(d.notes) + 1, userId |-> body.userId,
                                 title |-> body.title,
                                 content |-> IF body.content = << >> THEN NullStr
                                                                     ELSE body.content,
                                 isPinned |-> body.isPinned,
                                 images |-> body.images, isDeleted |-> FALSE,
                                 updatedAt |-> d.now + 1])]

\* a GET /api/notes that does not filter on isDeleted
notes_GET_all(notes, userId) ==
    LET where == SelectSeq(notes, LAMBDA n : n.userId = userId)
        found == [i \in DOMAIN where |-> WithImages(where[i])]
    IN OrderBy(found, [i, j \in DOMAIN found |-> PinnedThenUpdatedDesc(found[i], found[j])])

\* GET /api/notes?userId=: findMany where { userId, isDeleted: false },
\* pinned notes first, then the most recently updated first, each note with
\* its images by ascending order
notes_GET(notes, userId) ==
    LET where == SelectSeq(notes, LAMBDA n : n.userId = userId /\ ~n.isDeleted)
        found == [i \in DOMAIN where |-> WithImages(where[i])]
    IN OrderBy(found, [i, j \in DOMAIN found |-> PinnedThenUpdatedDesc(found[i], found[j])])

\* DELETE /api/notes/[id]: db.note.update sets isDeleted (and throws when the
\* note does not exist)
notesId_DELETE(d, id) ==
    IF id \notin 1..Len(d.notes) THEN d
    ELSE [d EXCEPT !.now = @ + 1, !.notes[id].isDeleted = TRUE,
                   !.notes[id].updatedAt = d.now + 1]

\* PUT /api/notes/[id], one database call at a time.  db.note.update writes
\* the fields the body has (data.has) and leaves a field that is undefined
\* as it is.
note_update(d, id, data) ==
    [d EXCEPT
       !.now = @ + 1,
       !.notes[id].title = IF "title" \in data.has THEN data.title ELSE @,
       !.notes[id].content = IF "content" \in data.has THEN data.content ELSE @,
       !.notes[id].isPinned = IF "isPinned" \in data.has THEN data.isPinned ELSE @,
       !.notes[id].updatedAt = d.now + 1]
\* db.image.deleteMany({ where: { noteId: id } })
image_deleteMany(d, id) == [d EXCEPT !.notes[id].images = << >>]
\* db.image.createMany({ data: data.images.map(...) })
image_createMany(d, id, images) == [d EXCEPT !.notes[id].images = @ \o images]
\* db.note.findUnique({ where: { id }, include: { images: orderBy order } })
note_findUnique(d, id) == WithImages(d.notes[id])

(***************************************************************************)
(* The route handlers as the server runs them: a handler in flight         *)
(* occupies a slot of srv.handlers, and each database call it awaits is    *)
(* one step.  No handler uses a transaction.                               *)
(***************************************************************************)
HandlerSlots == DOMAIN srv.handlers
\* the slot a new request takes
FreeHandler(c) ==
    /\ c \in HandlerSlots /\ srv.handlers[c] = NoHandler
    /\ \A d \in 1..(c - 1) : srv.handlers[d] # NoHandler

Request(route, pc, awaited, id, body) ==
    [NoHandler EXCEPT !.route = route, !.pc = pc, !.awaited = awaited, !.id = id,
                      !.body = body]

Responded(route, status) == [NoResponse EXCEPT !.route = route, !.status = status]

\* NextResponse.json(...): the handler ends.  The response waits in the slot
\* for the client that awaits it, or is recorded as the last response.
Respond(s, c, r) ==
    IF s.handlers[c].awaited
    THEN [s EXCEPT !.handlers[c].pc = "responded", !.handlers[c].resp = r]
    ELSE [s EXCEPT !.handlers[c] = NoHandler, !.resp = r]

handlerFrame ==
    << rng, kdfVars, cipherVars, key, salt, calls, last, lastLife, encLog, budget, sent,
       wire, auth, form, tasks, grid, editor >>

\* POST /api/auth/signup: the validation and `await db.user.findUnique`
SrvSignupFindUnique ==
    \E c \in HandlerSlots :
        LET h == srv.handlers[c]
            status == signup_POST_findUnique(db.users, h.body)
        IN /\ h.route = "signup" /\ h.pc = "findUnique"
           /\ srv' = IF status = 0
                     THEN [srv EXCEPT !.handlers[c].pc = "create"]
                     ELSE Respond(srv, c, [Responded("signup", status) EXCEPT
                                              !.email = h.body.email,
                                              !.password = h.body.password])
           /\ UNCHANGED << db, srvHeld, handlerFrame >>

\* POST /api/auth/signup: generateSalt, hashPassword, `await db.user.create`
SrvSignupCreate ==
    \E c \in HandlerSlots, keySalt \in generateSalt :
        LET h == srv.handlers[c]
            res == signup_POST_create(db.users, h.body, keySalt)
        IN /\ h.route = "signup" /\ h.pc = "create"
           /\ db' = [db EXCEPT !.users = res.users]
           /\ srvHeld' = srvHeld \cup { [password |-> h.body.password, keySalt |-> keySalt] }
           /\ srv' = Respond([srv EXCEPT
                                !.signedUp = IF res.status = 200
                                             THEN @ \cup { [email |-> toLowerCase(h.body.email),
                                                            password |-> h.body.password] }
                                             ELSE @],
                             c, [Responded("signup", res.status) EXCEPT
                                    !.email = h.body.email, !.password = h.body.password,
                                    !.user = res.user])
           /\ UNCHANGED handlerFrame

\* POST /api/auth/login: `await db.user.findUnique`, then the comparison
SrvLoginFindUnique ==
    \E c \in HandlerSlots :
        LET h == srv.handlers[c]
            res == login_POST(db.users, h.body)
            found == { u \in db.users : u.email = toLowerCase(h.body.email) }
        IN /\ h.route = "login" /\ h.pc = "findUnique"
           /\ srvHeld' = srvHeld \cup
                  { [password |-> h.body.password, keySalt |-> u.keySalt] : u \in found }
           /\ srv' = Respond(srv, c, [Responded("login", res.status) EXCEPT
                                         !.email = h.body.email,
                                         !.password = h.body.password,
                                         !.user = res.user])
           /\ UNCHANGED << db, handlerFrame >>

\* GET /api/notes?userId=: `await db.note.findMany`
SrvGetFindMany ==
    \E c \in HandlerSlots :
        LET h == srv.handlers[c]
        IN /\ h.route = "GET" /\ h.pc = "findMany"
           /\ srv' = Respond(srv, c,
                             IF h.id = 0 THEN Responded("GET", 400)
                             ELSE [Responded("GET", 200) EXCEPT
                                      !.id = h.id, !.notes = notes_GET(db.notes, h.id)])
           /\ UNCHANGED << db, srvHeld, handlerFrame >>

\* POST /api/notes: `await db.note.create`
SrvPostCreate ==
    \E c \in HandlerSlots :
        LET h == srv.handlers[c]
            valid == h.body.userId # 0 /\ h.body.title # << >>
        IN /\ h.route = "POST" /\ h.pc = "create"
           /\ db' = notes_POST(db, h.body)
           /\ srv' = Respond(srv, c,
                             IF valid
                             THEN [Responded("POST", 200) EXCEPT !.id = Len(db.notes) + 1]
                             ELSE Responded("POST", 400))
           /\ UNCHANGED << srvHeld, handlerFrame >>

\* DELETE /api/notes/[id]: `await db.note.update`, which throws for a note
\* that does not exist
SrvDeleteUpdate ==
    \E c \in HandlerSlots :
        LET h == srv.handlers[c]
        IN /\ h.route = "DELETE" /\ h.pc = "update"
           /\ db' = notesId_DELETE(db, h.id)
           /\ srv' = Respond(srv, c,
                             [Responded("DELETE", IF h.id \in 1..Len(db.notes) THEN 200
                                                                             ELSE 500)
                                 EXCEPT !.id = h.id])
           /\ UNCHANGED << srvHeld, handlerFrame >>

\* PUT /api/notes/[id]: `await db.note.update`, which throws for a note that
\* does not exist
SrvPutUpdate ==
    \E c \in HandlerSlots :
        LET h == srv.handlers[c]
            hasImages == "images" \in h.body.has
        IN /\ h.route = "PUT" /\ h.pc = "update"
           /\ IF h.id \in 1..Len(db.notes)
              THEN /\ db' = note_update(db, h.id, h.body)
                   /\ srv' = [srv EXCEPT
                                !.handlers[c].pc = IF hasImages THEN "deleteMany"
                                                                ELSE "findUnique",
                                !.putImages = IF hasImages
                                              THEN @ \cup { [id |-> h.id,
                                                             images |-> h.body.images] }
                                              ELSE @]
              ELSE /\ srv' = Respond(srv, c, [Responded("PUT", 500) EXCEPT !.id = h.id])
                   /\ UNCHANGED db
           /\ UNCHANGED << srvHeld, handlerFrame >>

\* PUT: `await db.image.deleteMany({ where: { noteId: id } })`
SrvPutDeleteMany ==
    \E c \in HandlerSlots :
        LET h == srv.handlers[c]
        IN /\ h.route = "PUT" /\ h.pc = "deleteMany"
           /\ db' = image_deleteMany(db, h.id)
           /\ srv' = [srv EXCEPT !.handlers[c].pc = IF Len(h.body.images) > 0
                                                    THEN "createMany" ELSE "findUnique"]
           /\ UNCHANGED << srvHeld, handlerFrame >>

\* PUT: `await db.image.createMany({ data: data.images.map(...) })`
SrvPutCreateMany ==
    \E c \in HandlerSlots :
        LET h == srv.handlers[c]
        IN /\ h.route = "PUT" /\ h.pc = "createMany"
           /\ db' = image_createMany(db, h.id, h.body.images)
           /\ srv' = [srv EXCEPT !.handlers[c].pc = "findUnique"]
           /\ UNCHANGED << srvHeld, handlerFrame >>

\* PUT: `await db.note.findUnique(...)` and the response
SrvPutFindUnique ==
    \E c \in HandlerSlots :
        LET h == srv.handlers[c]
        IN /\ h.route = "PUT" /\ h.pc = "findUnique"
           /\ srv' = Respond(srv, c, [Responded("PUT", 200) EXCEPT
                                         !.id = h.id,
                                         !.notes = << note_findUnique(db, h.id) >>])
           /\ UNCHANGED << db, srvHeld, handlerFrame >>

(***************************************************************************)
(* The client: the auth store, the auth form and NotesGrid.                *)
(***************************************************************************)
\* auth-store.ts
setUser(user) ==
    [user |-> user, isAuthenticated |-> user # NoUser, isEncryptionReady |-> FALSE]
setEncryptionReady(state, ready) == [state EXCEPT !.isEncryptionReady = ready]
logout == [user |-> NoUser, isAuthenticated |-> FALSE, isEncryptionReady |-> FALSE]

\* auth-store.ts: persist's partialize, the part of the store written to storage
partialize(state) == [user |-> state.user, isAuthenticated |-> state.isAuthenticated]

\* what localStorage['securekeep-auth'] holds: persist writes on every set
localStorage == partialize(auth)

\* persist(...) at store creation: the persisted fields are merged over the
\* initial state
rehydrate(persisted) ==
    [f \in DOMAIN AuthStoreInit |->
        IF f \in DOMAIN persisted THEN persisted[f] ELSE AuthStoreInit[f]]

\* Home: which of the two components is rendered
AuthFormShown == ~auth.isAuthenticated \/ ~auth.isEncryptionReady
NotesGridShown == auth.isAuthenticated /\ auth.isEncryptionReady

\* the values crypto.getRandomValues can return to the application: every
\* call returns any of them
NumAppIV == 1
\* the actions the user takes (submit, save, delete, pin, color, logout, reload);
\* opening and closing the editor are not counted
MaxAppCalls == 4
\* the NotesGrid handlers in flight at once, of all instances
MaxTasks == 3
\* the route handlers in flight at once
MaxAppHandlers == 3

Email_Ax == << 65, 64, 120 >>      \* "A@x"
Email_ax == << 97, 64, 120 >>      \* "a@x"
Email_bx == << 98, 64, 120 >>      \* "b@x"
Str_password == << 112, 97, 115, 115, 119, 111, 114, 100 >>   \* "password"
AppEmails == { Email_Ax, Email_bx }
AppPasswords == { Str_password, Str_pwA }
Image_00FF == [data |-> arrayBufferToBase64(<< 0, 255 >>), order |-> 0]
AppTitles == { Str_Hi }
AppContents == { Str_eAcute }
AppImageLists == { << >>, << Image_00FF >> }
\* the texts the user typed or attached, as the client holds them
AppPlaintexts == AppTitles \cup AppContents \cup { Image_00FF.data }

\* a noteData that carries the raw bytes of the held key in its title field
handleSaveNote_noteDataWithKey(userId, note, title, content, encryptedImages) ==
    [userId |-> userId, title |-> key[1].material, content |-> content,
     images |-> encryptedImages]

\* a handleSaveNote that sends the content as typed
handleSaveNote_noteDataPlain(userId, note, title, content, encryptedImages) ==
    [userId |-> userId, title |-> title, content |-> note.content,
     images |-> encryptedImages]

\* handleSaveNote: const noteData = { userId, title, content, ..., images }
handleSaveNote_noteData(userId, note, title, content, encryptedImages) ==
    [userId |-> userId, title |-> title, content |-> content,
     images |-> encryptedImages]

FieldsOf(body) ==
    { [field |-> "title", value |-> body.title],
      [field |-> "content", value |-> body.content] }
    \cup { [field |-> "image", value |-> body.images[n].data] : n \in DOMAIN body.images }

\* the auth form's request body { email, password }, field by field
AuthFields(body) ==
    { [field |-> "email", value |-> body.email],
      [field |-> "password", value |-> body.password] }

(***************************************************************************)
(* SpecApp: one browser and the server.  The user submits the auth form,   *)
(* saves, deletes, pins and colors notes, logs out and reloads the page;   *)
(* every handler of the client runs from one await to the next in a step   *)
(* of its own, and so does every route handler that serves its requests.   *)
(***************************************************************************)
AppInit ==
    /\ rng = Nonces(NumAppIV) /\ KdfIdle /\ CipherIdle
    /\ key = << NULL >> /\ salt = << NullStr >> /\ lastLife = << NoLife >>
    /\ calls = << >> /\ last = NoSvcCall /\ encLog = << >> /\ budget = MaxAppCalls
    /\ db = DbEmpty /\ srvHeld = {} /\ sent = {} /\ wire = {}
    /\ auth = AuthStoreInit /\ form = FormIdle
    /\ tasks = [t \in 1..MaxTasks |-> NoTask] /\ grid = GridIdle
    /\ srv = [SrvIdle EXCEPT !.handlers = [c \in 1..MaxAppHandlers |-> NoHandler]]
    /\ editor = EditorIdle

appSvcFrame == << calls, last, kdfVars, cipherVars, editor >>

TaskSlots == DOMAIN tasks
\* the slot a handler that starts takes
FreeTask(t) ==
    /\ t \in TaskSlots /\ tasks[t] = NoTask
    /\ \A u \in 1..(t - 1) : tasks[u] # NoTask

\* the response a client awaits in handler slot c has arrived
Answered(c) == c \in HandlerSlots /\ srv.handlers[c].pc = "responded"

\* what NotesGrid keeps of a note it shows: images is the number of images
GridNote(row) == [id |-> row.id, isPinned |-> row.isPinned, images |-> row.shown]

\* fetchNotes, up to `await fetch`: the task that awaits GET /api/notes
fetchNotes(userId, mounted, c) ==
    [NoTask EXCEPT !.kind = "fetch", !.pc = "fetch", !.mounted = mounted,
                   !.userId = userId, !.h = c]
fetchNotes_request(userId) == Request("GET", "findMany", TRUE, userId, NoBody)

\* the auth form submits { email, password } to the signup route
AuthFormSignup ==
    \E email \in AppEmails, password \in AppPasswords, c \in HandlerSlots :
        LET body == [NoBody EXCEPT !.email = email, !.password = password]
        IN /\ AuthFormShown /\ form.pc = "idle" /\ FreeHandler(c) /\ Spend
           /\ srv' = [srv EXCEPT !.handlers[c] = Request("signup", "findUnique", TRUE, 0, body)]
           /\ form' = [FormIdle EXCEPT !.pc = "fetch", !.password = password, !.h = c]
           /\ wire' = wire \cup AuthFields(body)
           /\ UNCHANGED << db, srvHeld, key, salt, lastLife, encLog, rng, sent, auth, tasks,
                           grid, appSvcFrame >>

\* the auth form submits { email, password } to the login route
AuthFormLogin ==
    \E email \in AppEmails, password \in AppPasswords, c \in HandlerSlots :
        LET body == [NoBody EXCEPT !.email = email, !.password = password]
        IN /\ AuthFormShown /\ form.pc = "idle" /\ FreeHandler(c) /\ Spend
           /\ srv' = [srv EXCEPT !.handlers[c] = Request("login", "findUnique", TRUE, 0, body)]
           /\ form' = [FormIdle EXCEPT !.pc = "fetch", !.password = password, !.h = c]
           /\ wire' = wire \cup AuthFields(body)
           /\ UNCHANGED << db, srvHeld, key, salt, lastLife, encLog, rng, sent, auth, tasks,
                           grid, appSvcFrame >>

\* the response arrives.  On success: setUser(user), then
\* encryptionService.initialize(password, user.keySalt) up to its await
AuthFormInitialize ==
    LET resp == srv.handlers[form.h].resp
        d == initialize_derive(form.password, resp.user.keySalt)
    IN /\ form.pc = "fetch" /\ Answered(form.h)
       /\ srv' = [srv EXCEPT !.handlers[form.h] = NoHandler]
       /\ IF resp.status = 200
          THEN /\ auth' = setUser(resp.user)
               /\ salt' = [salt EXCEPT ![1] = resp.user.keySalt]
               /\ form' = IF d.ok
                          THEN [form EXCEPT !.pc = "derive", !.user = resp.user,
                                            !.pend = d.val, !.h = 0]
                          ELSE FormIdle
          ELSE /\ form' = FormIdle
               /\ UNCHANGED << auth, salt >>
       /\ UNCHANGED << key, lastLife, encLog, rng, budget, db, srvHeld, sent, wire, tasks,
                       grid, appSvcFrame >>

\* encryptionService.initialize settles: `this.key = await deriveKey...`
\* assigns the derived key.  The form has not touched isEncryptionReady yet.
AuthFormInitializeDone ==
    /\ form.pc = "derive"
    /\ key' = [key EXCEPT ![1] = initialize_assign(@, form.pend)]
    /\ lastLife' = [lastLife EXCEPT ![1] =
                       [op |-> "initialize", password |-> form.password,
                        salt |-> form.user.keySalt, wasReady |-> Ready(1)]]
    /\ form' = [form EXCEPT !.pc = "initialized", !.pend = NULL]
    /\ UNCHANGED << salt, encLog, rng, budget, db, srvHeld, sent, wire, auth, tasks, grid,
                    srv, appSvcFrame >>

\* the form goes on after `await initialize`, in a step of its own:
\* setEncryptionReady(true).  Home renders NotesGrid, whose effect calls
\* fetchNotes.  That the form sets the flag after the key is held, and not
\* before, is the order of spec.md section 3 ("derives the encryption key
\* locally via the KDF, and initializes the Session Manager; thereafter
\* every write encrypts ... every read decrypts") and of the comment in Home
\* ("encryption not ready (Encryption key must be re-derived each session")
\* and is assumed here; the handlers of NotesGrid, the service and the store
\* do not rely on it: each of them reads the flags and the key it finds.
AuthFormReady ==
    \E t \in TaskSlots, c \in HandlerSlots :
        /\ form.pc = "initialized" /\ FreeTask(t) /\ FreeHandler(c)
        /\ auth' = setEncryptionReady(auth, TRUE)
        /\ form' = FormIdle
        /\ grid' = GridIdle
        /\ tasks' = [tasks EXCEPT ![t] = fetchNotes(auth.user.id, TRUE, c)]
        /\ srv' = [srv EXCEPT !.handlers[c] = fetchNotes_request(auth.user.id)]
        /\ UNCHANGED << key, salt, lastLife, encLog, rng, budget, db, srvHeld, sent, wire,
                        appSvcFrame >>

\* setIsSaving(false) in the finally block of handleSaveNote
setIsSaving_false(task) == IF task.mounted THEN [grid EXCEPT !.isSaving = FALSE] ELSE grid

\* setIsLoading(false) in the finally block of fetchNotes
setIsLoading_false(task) == IF task.mounted THEN [grid EXCEPT !.isLoading = FALSE] ELSE grid

\* what the user can click in <main>: the cards and the create buttons are
\* rendered only when isLoading is false, and the editor is a modal dialog
\* that covers them (and the header) while it is open
CardsShown == NotesGridShown /\ ~grid.isLoading /\ ~grid.isEditorOpen

\* the Create Note button, the floating button (a new note, no id) or onEdit
\* of a card: setEditingNote(note); setIsEditorOpen(true)
OpenEditor ==
    \E id \in {0} \cup { grid.notes[i].id : i \in DOMAIN grid.notes } :
        /\ CardsShown
        /\ grid' = [grid EXCEPT !.isEditorOpen = TRUE, !.editingNote = id]
        /\ UNCHANGED << key, salt, lastLife, encLog, rng, budget, db, srvHeld, sent, wire,
                        auth, form, tasks, srv, appSvcFrame >>

\* onClose of the editor (Cancel, Escape): setIsEditorOpen(false);
\* setEditingNote(null)
CloseEditor ==
    /\ NotesGridShown /\ grid.isEditorOpen
    /\ grid' = [grid EXCEPT !.isEditorOpen = FALSE, !.editingNote = 0]
    /\ UNCHANGED << key, salt, lastLife, encLog, rng, budget, db, srvHeld, sent, wire,
                    auth, form, tasks, srv, appSvcFrame >>

\* The Save button of the editor: NoteEditor.handleSave calls onSave with the
\* id of the note the editor was opened on and the title, content, pin and
\* images the editor holds; NotesGrid.handleSaveNote then runs up to the
\* first await inside encryptNote.  The button is disabled while isSaving.
HandleSaveNote ==
    \E t \in TaskSlots, title \in AppTitles, content \in AppContents, isPinned \in BOOLEAN,
       images \in AppImageLists,
       iv \in IF key[1] = NULL THEN { << >> } ELSE getRandomValues(rng) :
        LET note == [id |-> grid.editingNote, title |-> title, content |-> content,
                     isPinned |-> isPinned, images |-> images]
            r == encryptNote_title(key[1], title, iv)
        IN /\ NotesGridShown /\ grid.isEditorOpen /\ ~grid.isSaving /\ FreeTask(t) /\ Spend
           /\ IF auth.user.id = 0
              THEN UNCHANGED << tasks, grid, rng, encLog >>
              ELSE /\ rng' = rng
                   /\ encLog' = IF r.ok
                                THEN Append(encLog, LogEntry(1, "title", title, key[1], r.val))
                                ELSE encLog
                   /\ tasks' = IF r.ok
                               THEN [tasks EXCEPT ![t] =
                                        [NoTask EXCEPT !.kind = "save", !.pc = "content",
                                                       !.mounted = TRUE,
                                                       !.userId = auth.user.id,
                                                       !.note = note, !.title = r.val]]
                               ELSE tasks
                   /\ grid' = [grid EXCEPT !.isSaving = r.ok]
           /\ UNCHANGED << key, salt, lastLife, db, srvHeld, sent, wire, auth, form, srv,
                           appSvcFrame >>

\* handleSaveNote: the content half of encryptNote
SaveContent ==
    \E t \in TaskSlots, iv \in getRandomValues(rng) :
        LET task == tasks[t]
            r == encryptNote_content(key[1], task.note.content, iv)
        IN /\ task.kind = "save" /\ task.pc = "content"
           /\ rng' = rng
           /\ encLog' = IF r.ok
                        THEN Append(encLog, LogEntry(1, "content", task.note.content,
                                                     key[1], r.val))
                        ELSE encLog
           /\ tasks' = [tasks EXCEPT ![t] = IF r.ok
                                            THEN [task EXCEPT !.pc = "images", !.content = r.val]
                                            ELSE NoTask]
           /\ grid' = IF r.ok THEN grid ELSE setIsSaving_false(task)
           /\ UNCHANGED << key, salt, lastLife, budget, db, srvHeld, sent, wire, auth, form,
                           srv, appSvcFrame >>

\* handleSaveNote: one turn of `for (const image of note.images)`
SaveImage ==
    \E t \in TaskSlots, iv \in IF key[1] = NULL THEN { << >> } ELSE getRandomValues(rng) :
        LET task == tasks[t]
            image == task.note.images[Len(task.encryptedImages) + 1]
            imageBuffer == atob(image.data).val
            r == encryptImage(key[1], imageBuffer, iv)
        IN /\ task.kind = "save" /\ task.pc = "images"
           /\ Len(task.encryptedImages) < Len(task.note.images)
           /\ rng' = rng
           /\ encLog' = IF r.ok
                        THEN Append(encLog, LogEntry(1, "image", imageBuffer, key[1], r.val))
                        ELSE encLog
           /\ tasks' = [tasks EXCEPT ![t] =
                           IF r.ok
                           THEN [task EXCEPT !.encryptedImages =
                                    Append(@, [data |-> r.val, order |-> image.order])]
                           ELSE NoTask]
           /\ grid' = IF r.ok THEN grid ELSE setIsSaving_false(task)
           /\ UNCHANGED << key, salt, lastLife, budget, db, srvHeld, sent, wire, auth, form,
                           srv, appSvcFrame >>

\* handleSaveNote: fetch(url, { method, body: JSON.stringify(noteData) }),
\* PUT /api/notes/[id] for a note that has an id and POST /api/notes otherwise
SaveFetch ==
    \E t \in TaskSlots, c \in HandlerSlots :
        LET task == tasks[t]
            noteData == handleSaveNote_noteData(task.userId, task.note, task.title,
                                                task.content, task.encryptedImages)
            body == [NoBody EXCEPT !.userId = noteData.userId, !.title = noteData.title,
                                   !.content = noteData.content,
                                   !.isPinned = task.note.isPinned,
                                   !.images = noteData.images,
                                   !.has = { "userId", "title", "content", "color",
                                             "isPinned", "images" }]
        IN /\ task.kind = "save" /\ task.pc = "images"
           /\ Len(task.encryptedImages) = Len(task.note.images)
           /\ FreeHandler(c)
           /\ srv' = [srv EXCEPT !.handlers[c] =
                         IF task.note.id # 0
                         THEN Request("PUT", "update", TRUE, task.note.id, body)
                         ELSE Request("POST", "create", TRUE, 0, body)]
           /\ sent' = sent \cup FieldsOf(noteData)
           /\ wire' = wire \cup FieldsOf(noteData)
           /\ tasks' = [tasks EXCEPT ![t].pc = "fetch", ![t].h = c]
           /\ UNCHANGED << key, salt, lastLife, encLog, rng, budget, db, srvHeld, auth, form,
                           grid, appSvcFrame >>

\* handleSaveNote after `await fetch`, whatever the status of the response:
\* setIsEditorOpen(false), setEditingNote(null) and fetchNotes(), which does
\* setIsLoading(true) and runs up to its own `await fetch`; then the finally
\* block, setIsSaving(false)
SaveResponse ==
    \E t \in TaskSlots :
        LET task == tasks[t]
        IN /\ task.kind = "save" /\ task.pc = "fetch" /\ Answered(task.h)
           /\ tasks' = [tasks EXCEPT ![t] = fetchNotes(task.userId, task.mounted, task.h)]
           /\ srv' = [srv EXCEPT !.handlers[task.h] = fetchNotes_request(task.userId)]
           /\ grid' = IF task.mounted
                      THEN [grid EXCEPT !.isEditorOpen = FALSE, !.editingNote = 0,
                                        !.isLoading = TRUE, !.isSaving = FALSE]
                      ELSE grid
           /\ UNCHANGED << key, salt, lastLife, encLog, rng, budget, db, srvHeld, sent, wire,
                           auth, form, appSvcFrame >>

\* a note of the response that fetchNotes is decrypting: pc is the decrypt
\* call it awaits ("content", "images"), "done", or "null" once decryptNote
\* has thrown; n counts the images gone through and shown those decrypted
FetchRow(row, k) ==
    [id |-> row.id, isPinned |-> row.isPinned, content |-> row.content,
     images |-> row.images, n |-> 0, shown |-> 0,
     pc |-> IF decryptNote_title(k, row.title).ok THEN "content" ELSE "null"]

\* setNotes(decryptedNotes.filter(n => n !== null)) once Promise.all has
\* settled, then the finally block, setIsLoading(false); until then the task
\* keeps its rows
fetchNotes_settle(t, rows) ==
    IF \A i \in DOMAIN rows : rows[i].pc \in { "done", "null" }
    THEN /\ tasks' = [tasks EXCEPT ![t] = NoTask]
         /\ grid' = [setIsLoading_false(tasks[t]) EXCEPT !.notes =
                        IF tasks[t].mounted
                        THEN LET kept == SelectSeq(rows, LAMBDA r : r.pc = "done")
                             IN [i \in DOMAIN kept |-> GridNote(kept[i])]
                        ELSE @]
    ELSE /\ tasks' = [tasks EXCEPT ![t].pc = "decrypt", ![t].rows = rows]
         /\ UNCHANGED grid

\* fetchNotes after `await fetch`: data.notes.map(async ...) calls decryptNote
\* for every note, each call running up to its first await
FetchResponse ==
    \E t \in TaskSlots :
        LET task == tasks[t]
            resp == srv.handlers[task.h].resp
        IN /\ task.kind = "fetch" /\ task.pc = "fetch" /\ Answered(task.h)
           /\ srv' = [srv EXCEPT !.handlers[task.h] = NoHandler]
           /\ IF resp.status = 200
              THEN fetchNotes_settle(t, [i \in DOMAIN resp.notes |->
                                            FetchRow(resp.notes[i], key[1])])
              ELSE /\ tasks' = [tasks EXCEPT ![t] = NoTask]
                   /\ grid' = setIsLoading_false(task)
           /\ UNCHANGED << key, salt, lastLife, encLog, rng, budget, db, srvHeld, sent, wire,
                           auth, form, appSvcFrame >>

\* fetchNotes: decryptNote goes on to the content of one note
FetchContent ==
    \E t \in TaskSlots :
        \E i \in DOMAIN tasks[t].rows :
            LET row == tasks[t].rows[i]
                r == decryptNote_content(key[1], IF row.content = NullStr THEN << >>
                                                                          ELSE row.content)
            IN /\ tasks[t].pc = "decrypt" /\ row.pc = "content"
               /\ fetchNotes_settle(t, [tasks[t].rows EXCEPT
                                          ![i].pc = IF ~r.ok THEN "null"
                                                    ELSE IF row.images = << >> THEN "done"
                                                    ELSE "images"])
               /\ UNCHANGED << key, salt, lastLife, encLog, rng, budget, db, srvHeld, sent,
                               wire, auth, form, srv, appSvcFrame >>

\* fetchNotes: one turn of `for (const image of note.images)`; an image that
\* fails to decrypt is logged and left out
FetchImage ==
    \E t \in TaskSlots :
        \E i \in DOMAIN tasks[t].rows :
            LET row == tasks[t].rows[i]
                r == decryptImage(key[1], row.images[row.n + 1].data)
            IN /\ tasks[t].pc = "decrypt" /\ row.pc = "images"
               /\ fetchNotes_settle(t, [tasks[t].rows EXCEPT
                                          ![i].n = @ + 1,
                                          ![i].shown = IF r.ok THEN @ + 1 ELSE @,
                                          ![i].pc = IF row.n + 1 = Len(row.images)
                                                    THEN "done" ELSE "images"])
               /\ UNCHANGED << key, salt, lastLife, encLog, rng, budget, db, srvHeld, sent,
                               wire, auth, form, srv, appSvcFrame >>

\* a handler of a note card starts: it sends its request and awaits the answer
CardRequest(kind, id, request) ==
    \E t \in TaskSlots, c \in HandlerSlots :
        /\ CardsShown /\ FreeTask(t) /\ FreeHandler(c) /\ Spend
        /\ tasks' = [tasks EXCEPT ![t] =
                        [NoTask EXCEPT !.kind = kind, !.pc = "fetch", !.mounted = TRUE,
                                       !.userId = auth.user.id, !.note.id = id,
                                       !.note.isPinned = request.body.isPinned,
                                       !.closure = grid.notes, !.h = c]]
        /\ srv' = [srv EXCEPT !.handlers[c] = request]
        /\ UNCHANGED << key, salt, lastLife, encLog, rng, db, srvHeld, sent, wire, auth, form,
                        grid, appSvcFrame >>

\* the handler goes on after `await fetch`, whatever the status: setNotes(notes)
CardResponse(kind, t, notes) ==
    /\ tasks[t].kind = kind /\ tasks[t].pc = "fetch" /\ Answered(tasks[t].h)
    /\ srv' = [srv EXCEPT !.handlers[tasks[t].h] = NoHandler]
    /\ grid' = IF tasks[t].mounted THEN [grid EXCEPT !.notes = notes] ELSE grid
    /\ tasks' = [tasks EXCEPT ![t] = NoTask]
    /\ UNCHANGED << key, salt, lastLife, encLog, rng, budget, db, srvHeld, sent, wire, auth,
                    form, appSvcFrame >>

\* NotesGrid.handleDeleteNote, up to `await fetch`
HandleDeleteNote ==
    \E i \in DOMAIN grid.notes :
        CardRequest("delete", grid.notes[i].id,
                    Request("DELETE", "update", TRUE, grid.notes[i].id, NoBody))

\* handleDeleteNote: setNotes(notes.filter(n => n.id !== id)), with notes the
\* value the handler was created with
DeleteResponse ==
    \E t \in TaskSlots :
        CardResponse("delete", t,
                     SelectSeq(tasks[t].closure, LAMBDA n : n.id # tasks[t].note.id))

\* NotesGrid.handleTogglePin(note.id, !note.isPinned), up to `await fetch`:
\* PUT /api/notes/[id] with { isPinned }
HandleTogglePin ==
    \E i \in DOMAIN grid.notes :
        CardRequest("pin", grid.notes[i].id,
                    Request("PUT", "update", TRUE, grid.notes[i].id,
                            [NoBody EXCEPT !.has = { "isPinned" },
                                           !.isPinned = ~grid.notes[i].isPinned]))

\* handleTogglePin: setNotes(notes.map(n => n.id === id ? { ...n, isPinned } : n))
TogglePinResponse ==
    \E t \in TaskSlots :
        CardResponse("pin", t,
                     [i \in DOMAIN tasks[t].closure |->
                         IF tasks[t].closure[i].id = tasks[t].note.id
                         THEN [tasks[t].closure[i] EXCEPT !.isPinned = tasks[t].note.isPinned]
                         ELSE tasks[t].closure[i]])

\* NotesGrid.handleChangeColor, up to `await fetch`: PUT /api/notes/[id] with
\* { color }
HandleChangeColor ==
    \E i \in DOMAIN grid.notes :
        CardRequest("color", grid.notes[i].id,
                    Request("PUT", "update", TRUE, grid.notes[i].id,
                            [NoBody EXCEPT !.has = { "color" }]))

\* handleChangeColor: setNotes(notes.map(n => n.id === id ? { ...n, color } : n));
\* the color of a note is not part of what is kept of it here
ChangeColorResponse ==
    \E t \in TaskSlots : CardResponse("color", t, tasks[t].closure)

\* the handlers of the NotesGrid instance that is unmounted go on running
Unmounted(ts) == [t \in DOMAIN ts |-> [ts[t] EXCEPT !.mounted = FALSE]]

\* a handleLogout that resets the auth store without clearing the service
HandleLogout_noClear ==
    /\ NotesGridShown /\ ~grid.isEditorOpen /\ Spend
    /\ auth' = logout
    /\ tasks' = Unmounted(tasks)
    /\ grid' = GridIdle
    /\ UNCHANGED << key, salt, lastLife, encLog, rng, db, srvHeld, sent, wire, form, srv,
                    appSvcFrame >>

\* The logout button of the header, which the open editor covers:
\* NotesGrid.handleLogout, encryptionService.clear(); logout().  Home then
\* renders the auth form in place of NotesGrid.
HandleLogout ==
    /\ NotesGridShown /\ ~grid.isEditorOpen /\ Spend
    /\ key' = [key EXCEPT ![1] = NULL]
    /\ salt' = [salt EXCEPT ![1] = NullStr]
    /\ lastLife' = [lastLife EXCEPT ![1] = [NoLife EXCEPT !.op = "clear"]]
    /\ auth' = logout
    /\ tasks' = Unmounted(tasks)
    /\ grid' = GridIdle
    /\ UNCHANGED << encLog, rng, db, srvHeld, sent, wire, form, srv, appSvcFrame >>

\* the page is loaded again: every module is evaluated anew (a new
\* EncryptionService, no handler of the client in flight) and the auth store
\* is created from its initial state and the persisted fields.  The route
\* handlers of the requests already sent go on; nobody awaits their answers.
PageReload ==
    /\ Spend
    /\ auth' = rehydrate(localStorage)
    /\ key' = [key EXCEPT ![1] = NULL]
    /\ salt' = [salt EXCEPT ![1] = NullStr]
    /\ lastLife' = [lastLife EXCEPT ![1] = NoLife]
    /\ form' = FormIdle
    /\ tasks' = [t \in DOMAIN tasks |-> NoTask]
    /\ grid' = GridIdle
    /\ srv' = [srv EXCEPT !.handlers =
                  [c \in DOMAIN @ |-> IF @[c].pc = "responded" THEN NoHandler
                                      ELSE [@[c] EXCEPT !.awaited = FALSE]]]
    /\ UNCHANGED << encLog, rng, db, srvHeld, sent, wire, appSvcFrame >>

AppNext ==
    \/ AuthFormSignup \/ AuthFormLogin \/ AuthFormInitialize \/ AuthFormInitializeDone
    \/ AuthFormReady
    \/ OpenEditor \/ CloseEditor
    \/ HandleSaveNote \/ SaveContent \/ SaveImage \/ SaveFetch \/ SaveResponse
    \/ FetchResponse \/ FetchContent \/ FetchImage
    \/ HandleDeleteNote \/ DeleteResponse \/ HandleTogglePin \/ TogglePinResponse
    \/ HandleChangeColor \/ ChangeColorResponse
    \/ HandleLogout \/ PageReload
    \/ SrvSignupFindUnique \/ SrvSignupCreate \/ SrvLoginFindUnique
    \/ SrvGetFindMany \/ SrvPostCreate \/ SrvDeleteUpdate
    \/ SrvPutUpdate \/ SrvPutDeleteMany \/ SrvPutCreateMany \/ SrvPutFindUnique

SpecApp == AppInit /\ [][AppNext]_vars

(***************************************************************************)
(* SpecServer: the route handlers on their own, with requests that arrive  *)
(* from any client and up to MaxHandlers handlers in flight at once.       *)
(***************************************************************************)
MaxRequests == 3
MaxHandlers == 2
Pw_HighSurrogate == << 55296 >> \o Str_password     \* "\uD800password"
Pw_LowSurrogate == << 56320 >> \o Str_password      \* "\uDC00password"
\* the empty password is the one both routes refuse as missing
SrvPasswords == { << >>, Str_password, Pw_HighSurrogate, Pw_LowSurrogate }
SrvEmails == { << >>, Email_Ax, Email_ax }
SrvUserIds == { 1, 2 }
SrvImage(data, order) == [data |-> data, order |-> order]
SrvImageLists ==
    { << >>, << SrvImage(<< 65 >>, 0) >>, << SrvImage(<< 66 >>, 1), SrvImage(<< 67 >>, 0) >> }

srvFrame ==
    << rng, kdfVars, cipherVars, key, salt, calls, last, lastLife, encLog, db, srvHeld,
       sent, wire, auth, form, tasks, grid, editor >>

ServerInit ==
    /\ rng = IVPool /\ KdfIdle /\ CipherIdle
    /\ key = << >> /\ salt = << >> /\ calls = << >> /\ lastLife = << >>
    /\ last = NoSvcCall /\ encLog = << >> /\ budget = MaxRequests
    /\ db = DbEmpty /\ srvHeld = {} /\ sent = {} /\ wire = {}
    /\ auth = AuthStoreInit /\ form = FormIdle /\ tasks = << >> /\ grid = GridIdle
    /\ editor = EditorIdle
    /\ srv = [SrvIdle EXCEPT !.handlers = [c \in 1..MaxHandlers |-> NoHandler]]

\* a request arrives and its handler starts
Arrive(h) == [srv EXCEPT !.handlers[CHOOSE c \in HandlerSlots : FreeHandler(c)] = h]
CanArrive == \E c \in HandlerSlots : FreeHandler(c)

SrvSignup ==
    \E email \in SrvEmails, password \in SrvPasswords :
        /\ CanArrive /\ Spend
        /\ srv' = Arrive(Request("signup", "findUnique", FALSE, 0,
                                 [NoBody EXCEPT !.email = email, !.password = password]))
        /\ UNCHANGED srvFrame

SrvLogin ==
    \E email \in SrvEmails, password \in SrvPasswords :
        /\ CanArrive /\ Spend
        /\ srv' = Arrive(Request("login", "findUnique", FALSE, 0,
                                 [NoBody EXCEPT !.email = email, !.password = password]))
        /\ UNCHANGED srvFrame

SrvPost ==
    \E userId \in SrvUserIds, images \in SrvImageLists :
        /\ CanArrive /\ Spend
        /\ srv' = Arrive(Request("POST", "create", FALSE, 0,
                                 [NoBody EXCEPT !.userId = userId, !.title = Str_Hi,
                                                !.images = images]))
        /\ UNCHANGED srvFrame

SrvGet ==
    \E userId \in SrvUserIds :
        /\ CanArrive /\ Spend
        /\ srv' = Arrive(Request("GET", "findMany", FALSE, userId, NoBody))
        /\ UNCHANGED srvFrame

SrvDelete ==
    \E id \in 1..(Len(db.notes) + 1) :
        /\ CanArrive /\ Spend
        /\ srv' = Arrive(Request("DELETE", "update", FALSE, id, NoBody))
        /\ UNCHANGED srvFrame

SrvPutFields == { { "title", "content" }, { "title", "content", "images" }, { "isPinned" } }

\* PUT with { title, content }, { title, content, images } or { isPinned }
SrvPut ==
    \E id \in 1..(Len(db.notes) + 1), has \in SrvPutFields, images \in SrvImageLists :
        /\ "images" \in has \/ images = << >>
        /\ CanArrive /\ Spend
        /\ srv' = Arrive(Request("PUT", "update", FALSE, id,
                                 [NoBody EXCEPT !.has = has, !.title = Str_Hi,
                                                !.images = images,
                                                !.isPinned = "isPinned" \in has]))
        /\ UNCHANGED srvFrame

ServerNext ==
    \/ SrvSignup \/ SrvLogin \/ SrvPost \/ SrvGet \/ SrvDelete \/ SrvPut
    \/ SrvSignupFindUnique \/ SrvSignupCreate \/ SrvLoginFindUnique
    \/ SrvGetFindMany \/ SrvPostCreate \/ SrvDeleteUpdate
    \/ SrvPutUpdate \/ SrvPutDeleteMany \/ SrvPutCreateMany \/ SrvPutFindUnique

SpecServer == ServerInit /\ [][ServerNext]_vars

(***************************************************************************)
(* SpecEditor: the image list of the note editor.  An image is its id and  *)
(* its order field; data and mimeType are never changed by the handlers.   *)
(***************************************************************************)
MaxEdits == 4
MaxFiles == 2
MaxNoteImages == 3

Image(id, order) == [id |-> id, order |-> order]
\* .map((img, idx) => ({ ...img, order: idx }))
Renumber(images) == [i \in DOMAIN images |-> Image(images[i].id, i - 1)]

\* handleRemoveImage
handleRemoveImage(images, imageId) ==
    Renumber(SelectSeq(images, LAMBDA img : img.id # imageId))

\* handleReorderImage.  findIndex returns -1 for an id that is not in the list
\* (index 0 here, the lists being 1-based).  Then "left" swaps the properties
\* -1 and -2 of the copy, which are no elements, and the copy is renumbered;
\* "right" on a non-empty list assigns undefined to the first element, which
\* the final map turns into an image with only an order (its id, undefined,
\* is 0 here); "right" on the empty list returns at the guard.
handleReorderImage(images, imageId, direction) ==
    LET found == { i \in DOMAIN images : images[i].id = imageId }
        index == IF found = {} THEN 0 ELSE CHOOSE i \in found : \A j \in found : i <= j
        swapIndex == IF direction = "left" THEN index - 1 ELSE index + 1
    IN IF (direction = "left" /\ index = 1) \/ (direction = "right" /\ index = Len(images))
       THEN images
       ELSE IF index = 0
       THEN IF direction = "left" THEN Renumber(images)
            ELSE Renumber([images EXCEPT ![1] = Image(0, 0)])
       ELSE Renumber([images EXCEPT ![index] = images[swapIndex],
                                    ![swapIndex] = images[index]])

\* handleImageSelect, the last statement: setImages([...images, ...newImages])
\* with images the value the handler was created with
handleImageSelect_setImages(closure, current, newImages) == closure \o newImages

editorFrame ==
    << rng, kdfVars, cipherVars, key, salt, calls, last, lastLife, encLog, db, srvHeld, sent,
       wire, auth, form, tasks, grid, srv >>

\* the editor opens on a note with 0..MaxNoteImages images (useEffect [note],
\* its first run)
EditorInit ==
    /\ rng = IVPool /\ KdfIdle /\ CipherIdle
    /\ key = << >> /\ salt = << >> /\ calls = << >> /\ lastLife = << >>
    /\ last = NoSvcCall /\ encLog = << >> /\ budget = MaxEdits
    /\ db = DbEmpty /\ srvHeld = {} /\ sent = {} /\ wire = {}
    /\ auth = AuthStoreInit /\ form = FormIdle /\ tasks = << >> /\ grid = GridIdle
    /\ srv = SrvIdle
    /\ \E n \in 0..MaxNoteImages :
          editor = [EditorIdle EXCEPT !.images = [i \in 1..n |-> Image(i, i - 1)],
                                      !.nextId = n + 1]

\* the file input changes: handleImageSelect runs up to its first await
EditorSelect ==
    \E files \in 1..MaxFiles :
        /\ editor.pc = "idle" /\ Spend
        /\ editor' = [editor EXCEPT !.pc = "resize", !.closure = editor.images,
                                    !.files = files, !.newImages = << >>]
        /\ UNCHANGED editorFrame

\* one turn of the loop after `await resizeImage(file)`; after the last file
\* the handler calls setImages in the same turn
EditorResized ==
    LET i == Len(editor.newImages)
        newImages == Append(editor.newImages,
                            Image(editor.nextId, Len(editor.closure) + i))
    IN /\ editor.pc = "resize"
       /\ editor' = IF i + 1 < editor.files
                    THEN [editor EXCEPT !.newImages = newImages, !.nextId = @ + 1]
                    ELSE [editor EXCEPT
                            !.images = handleImageSelect_setImages(editor.closure,
                                                                   editor.images, newImages),
                            !.pc = "idle", !.newImages = newImages, !.nextId = @ + 1]
       /\ UNCHANGED << budget, editorFrame >>

\* resizeImage rejects: the catch block logs, the list is not set
EditorResizeFailed ==
    /\ editor.pc = "resize"
    /\ editor' = [editor EXCEPT !.pc = "idle", !.newImages = << >>, !.files = 0]
    /\ UNCHANGED << budget, editorFrame >>

EditorRemove ==
    \E i \in DOMAIN editor.images :
        /\ Spend
        /\ editor' = [editor EXCEPT !.images = handleRemoveImage(@, editor.images[i].id)]
        /\ UNCHANGED editorFrame

EditorReorder ==
    \E i \in DOMAIN editor.images, direction \in { "left", "right" } :
        /\ Spend
        /\ IF direction = "left" THEN i # 1 ELSE i # Len(editor.images)
        /\ editor' = [editor EXCEPT
                        !.images = handleReorderImage(@, editor.images[i].id, direction)]
        /\ UNCHANGED editorFrame

\* useEffect [note]: the note prop changes (another note is opened, or the
\* editor is reset to a new note) and the effect calls setImages with the
\* images of that note, or with [].  A handleImageSelect that is awaiting
\* resizeImage is not cancelled and keeps the list it was created with.
EditorNoteChanged ==
    \E n \in 0..MaxNoteImages :
        /\ Spend
        /\ editor' = [editor EXCEPT
                        !.images = [i \in 1..n |-> Image(editor.nextId + i - 1, i - 1)],
                        !.nextId = @ + n]
        /\ UNCHANGED editorFrame

EditorNext ==
    \/ EditorSelect \/ EditorResized \/ EditorResizeFailed
    \/ EditorRemove \/ EditorReorder \/ EditorNoteChanged

SpecEditor == EditorInit /\ [][EditorNext]_vars

(***************************************************************************)
(* SpecStore: the auth store on its own, its three actions called in any   *)
(* order with any argument.  last.op names the action called last.         *)
(***************************************************************************)
MaxStoreCalls == 5
StoreUsers ==
    { [id |-> i, email |-> e, keySalt |-> s] : i \in 1..2, e \in AppEmails, s \in generateSalt }

storeFrame ==
    << rng, kdfVars, cipherVars, key, salt, calls, lastLife, encLog, db, srvHeld, sent,
       wire, form, tasks, grid, srv, editor >>

StoreInit ==
    /\ rng = IVPool /\ KdfIdle /\ CipherIdle
    /\ key = << >> /\ salt = << >> /\ calls = << >> /\ lastLife = << >>
    /\ last = NoSvcCall /\ encLog = << >> /\ budget = MaxStoreCalls
    /\ db = DbEmpty /\ srvHeld = {} /\ sent = {} /\ wire = {}
    /\ auth = AuthStoreInit /\ form = FormIdle /\ tasks = << >> /\ grid = GridIdle
    /\ srv = SrvIdle /\ editor = EditorIdle

StoreSetUser ==
    \E user \in StoreUsers \cup { NoUser } :
        /\ budget > 0 /\ budget' = budget - 1
        /\ auth' = setUser(user)
        /\ last' = [NoSvcCall EXCEPT !.op = "setUser"]
        /\ UNCHANGED storeFrame

StoreSetEncryptionReady ==
    \E ready \in BOOLEAN :
        /\ budget > 0 /\ budget' = budget - 1
        /\ auth' = setEncryptionReady(auth, ready)
        /\ last' = [NoSvcCall EXCEPT !.op = "setEncryptionReady"]
        /\ UNCHANGED storeFrame

StoreLogout ==
    /\ budget > 0 /\ budget' = budget - 1
    /\ auth' = logout
    /\ last' = [NoSvcCall EXCEPT !.op = "logout"]
    /\ UNCHANGED storeFrame

StoreNext == StoreSetUser \/ StoreSetEncryptionReady \/ StoreLogout

SpecStore == StoreInit /\ [][StoreNext]_vars

(***************************************************************************)
(* Claims checked under SpecCipher and SpecKdf                             *)
(***************************************************************************)
\* C2: decrypting, with the same key, the blob produced by encrypting p returns
\* exactly p (text through encryptString/decryptString, bytes through
\* encryptBinary/decryptBinary).
C2_RoundTrip ==
    (dec.fn # "none" /\ ~dec.tampered /\ dec.key = enc.key) => dec.out = Ok(enc.plain)

\* C5: with any one bit of the decoded blob flipped (nonce, ciphertext or tag),
\* decryption under the original key fails; it returns no plaintext at all.
C5_TamperDetected ==
    dec.tampered => (~dec.out.ok /\ dec.out.err = OperationError)

C5_Witness ==
    /\ dec.tampered /\ dec.fn = "decryptString" /\ ~dec.out.ok
    /\ enc.plain = Str_Hi

\* C6: a blob produced under k1 and decrypted under k2 # k1 fails with the
\* decryption error and returns no plaintext.
C6_WrongKeyRejected ==
    (dec.fn # "none" /\ ~dec.tampered /\ dec.key # enc.key) => dec.out = Err(OperationError)

C6_Witness ==
    /\ dec.fn = "decryptString" /\ ~dec.tampered /\ dec.key # enc.key
    /\ dec.out = Err(OperationError)

KdfBothOk == kdfOut[1].ok /\ kdfOut[2].ok

\* C8 as stated: identical inputs yield the same key, and inputs that differ in
\* the password or in the salt yield different keys.
C8_DifferentInputsDifferentKeys ==
    KdfBothOk =>
        /\ (kdfIn[1] = kdfIn[3] /\ kdfIn[2] = kdfIn[4]) => kdfOut[1].val = kdfOut[2].val
        /\ (kdfIn[1] # kdfIn[3] \/ kdfIn[2] # kdfIn[4]) => kdfOut[1].val # kdfOut[2].val

\* C8 amended: identical inputs yield the same result, and two derived keys are
\* equal exactly when the salts decode to the same bytes and the UTF-8 encoded
\* passwords are the same HMAC key (equal up to trailing zero bytes).
C8_KeyDeterminedByDecodedInputs ==
    /\ (kdfOut[1] # NoResult /\ kdfOut[2] # NoResult /\ kdfIn[1] = kdfIn[3] /\ kdfIn[2] = kdfIn[4])
          => kdfOut[1] = kdfOut[2]
    /\ KdfBothOk =>
          ( kdfOut[1].val = kdfOut[2].val
            <=> /\ atob(kdfIn[2]).val = atob(kdfIn[4]).val
                /\ StripTrailingZeros(TextEncoder_encode(kdfIn[1]))
                      = StripTrailingZeros(TextEncoder_encode(kdfIn[3])) )

C8_Witness ==
    /\ KdfBothOk /\ kdfIn[2] # kdfIn[4] /\ kdfIn[1] # kdfIn[3]
    /\ kdfOut[1].val = kdfOut[2].val

(***************************************************************************)
(* Claims checked under SpecService and SpecSessions                       *)
(***************************************************************************)
CryptoOps == { "encryptNote", "decryptNote", "encryptImage", "decryptImage",
               "encryptLabel", "decryptLabel" }
LastIsCryptoOp == last.pc = "done" /\ last.op \in CryptoOps
FailedWith(r, e) == ~r.ok /\ r.err = e
\* the key the given completed initialize(password, salt) derived
KeyOf(life) == deriveKeyFromPassword(life.password, life.salt).val
NonceOf(blob) == U8Slice(atob(blob).val, 0, IV_LENGTH)

\* C1: an encrypt/decrypt method invoked when the last completed lifecycle call
\* on the service is not an initialize() (none yet, or a clear()) fails with the
\* not-initialized error; invoked after a completed initialize() it never fails
\* with that error.
C1_NotInitializedIffNoKey ==
    LastIsCryptoOp =>
        IF last.life.op = "initialize"
        THEN ~FailedWith(last.out, NotInitializedError)
        ELSE last.out = Err(NotInitializedError)

C1_Witness ==
    /\ last.pc = "done" /\ last.op = "encryptNote" /\ last.life.op = "clear"
    /\ Len(encLog) > 0
    /\ last.out = Err(NotInitializedError)

\* C7: no two encryption calls produce the same blob, and no two encryption
\* calls under one key use the same nonce, whatever fields (title, content,
\* image, label) they encrypt.
C7_FreshNonce ==
    \A i, j \in 1..Len(encLog) :
        i < j => /\ encLog[i].blob # encLog[j].blob
                 /\ encLog[i].key = encLog[j].key =>
                        NonceOf(encLog[i].blob) # NonceOf(encLog[j].blob)

C7_Witness ==
    /\ Len(encLog) = 2
    /\ encLog[1].fn = "label" /\ encLog[2].fn = "label"
    /\ encLog[1].plain = encLog[2].plain /\ encLog[1].key = encLog[2].key
    /\ encLog[1].blob # encLog[2].blob

SameCredentials(l1, l2) ==
    /\ l1.op = "initialize" /\ l2.op = "initialize"
    /\ l1.password = l2.password /\ l1.salt = l2.salt

\* C9: the title and content blobs of one encryptNote, made on a service
\* initialized with (password, salt), are decrypted by decryptNote on any
\* service initialized with the same (password, salt) to exactly the original
\* title and content.
C9_NoteRoundTrip ==
    \A i \in 1..(Len(encLog) - 1) :
        ( /\ last.pc = "done" /\ last.op = "decryptNote"
          /\ encLog[i].fn = "title" /\ encLog[i + 1].fn = "content"
          /\ encLog[i].svc = encLog[i + 1].svc
          /\ last.a1 = encLog[i].blob /\ last.a2 = encLog[i + 1].blob
          /\ SameCredentials(encLog[i].life, encLog[i + 1].life)
          /\ SameCredentials(encLog[i].life, last.life)
          /\ SameCredentials(last.life, last.life2) )
        => last.out = Ok(<< encLog[i].plain, encLog[i + 1].plain >>)

\* C10: an encrypt/decrypt method invoked after an initialize(password2, salt2)
\* that was called on a Ready service has completed works under the key derived
\* from (password2, salt2): what it encrypts decrypts under that key, what it
\* decrypts is what decryption under that key gives, and a blob made under a
\* different, earlier key is rejected.
C10_ReinitializeReplacesKey ==
    (LastIsCryptoOp /\ last.life.op = "initialize" /\ last.life.wasReady) =>
        LET k == KeyOf(last.life)
        IN /\ last.op = "encryptLabel" => decryptString(last.out.val, k) = Ok(last.a1)
           /\ last.op = "encryptImage" => decryptBinary(last.out.val, k) = Ok(last.a1)
           /\ last.op = "decryptLabel" => last.out = decryptString(last.a1, k)
           /\ last.op = "decryptImage" => last.out = decryptBinary(last.a1, k)
           /\ last.op = "encryptNote" =>
                  /\ last.out.ok => decryptString(last.out.val[1], k).ok
                  /\ (last.out.ok /\ last.life2 = last.life) =>
                         decryptString(last.out.val[2], k).ok
           /\ last.op = "decryptNote" =>
                  /\ last.out.ok => decryptString(last.a1, k) = Ok(last.out.val[1])
                  /\ ~decryptString(last.a1, k).ok => last.out = decryptString(last.a1, k)
           /\ \A i \in 1..Len(encLog) :
                  (last.op \in {"decryptLabel", "decryptImage", "decryptNote"}
                      /\ encLog[i].blob = last.a1 /\ encLog[i].key # k) => ~last.out.ok

C10_Witness ==
    /\ last.pc = "done" /\ last.op = "decryptLabel"
    /\ last.life.op = "initialize" /\ last.life.wasReady
    /\ last.out = Err(OperationError)
    /\ \E i \in 1..Len(encLog) :
          /\ encLog[i].blob = last.a1 /\ encLog[i].fn = "label"
          /\ encLog[i].svc = last.svc /\ encLog[i].key # KeyOf(last.life)

(***************************************************************************)
(* Claims checked under SpecApp                                            *)
(***************************************************************************)
StoredTitles == { db.notes[n].title : n \in 1..Len(db.notes) }

\* C3: no password and salt that a route handler of the server has held
\* together derive a key that decrypts a note the server stores.
C3_ServerCannotDeriveKey ==
    \A h \in srvHeld, t \in StoredTitles :
        LET d == deriveKeyFromPassword(h.password, h.keySalt)
        IN ~(d.ok /\ decryptString(t, d.val).ok)

StoredFields ==
    UNION { FieldsOf(db.notes[n]) : n \in 1..Len(db.notes) }

\* C4: every title, content and image a notes route receives or stores is a
\* blob the EncryptionService produced for a field of that kind, and is none of
\* the texts the user typed or attached.
C4_OnlyBlobsSubmitted ==
    /\ StoredFields \subseteq sent
    /\ \A f \in sent :
          /\ f.value \notin AppPlaintexts
          /\ \E i \in 1..Len(encLog) :
                /\ encLog[i].fn = f.field /\ encLog[i].blob = f.value
                /\ encLog[i].plain # f.value

C4_Witness ==
    /\ Len(db.notes) = 1
    /\ Len(db.notes[1].images) = 1
    /\ \E i \in 1..Len(encLog) :
          /\ encLog[i].fn = "image" /\ encLog[i].blob = db.notes[1].images[1].data
          /\ encLog[i].plain = << 0, 255 >>
    /\ \E i \in 1..Len(encLog) :
          /\ encLog[i].fn = "content" /\ encLog[i].blob = db.notes[1].content
          /\ encLog[i].plain = Str_eAcute

(***************************************************************************)
(* C11: the service is Ready exactly when it holds a key: isInitialized()  *)
(* answers true iff the last lifecycle call that completed on the service  *)
(* before the query was an initialize that succeeded, and false when no    *)
(* lifecycle call has completed yet or the last one was clear().           *)
(***************************************************************************)
C11_IsInitializedIffKeyHeld ==
    (last.pc = "done" /\ last.op = "isInitialized")
        => /\ last.out = Ok(<< last.life.op = "initialize" >>)
           /\ last.out = Ok(<< last.held # NULL >>)

\* isInitialized() answered false on a service that was initialized, used to
\* encrypt, and then cleared
C11_Witness ==
    /\ last.pc = "done" /\ last.op = "isInitialized"
    /\ last.life.op = "clear"
    /\ last.out = Ok(<< FALSE >>)
    /\ \E i \in 1..Len(encLog) : encLog[i].svc = last.svc /\ encLog[i].life.op = "initialize"

\* a step of one of the two lifecycle methods of service s
LifecycleStep(s) ==
    \/ Initialize(s)
    \/ Clear(s)
    \/ \E c \in Slots : calls[c].svc = s /\ InitializeDone(c)

(***************************************************************************)
(* C12: the held key and salt of a service change only in a step of        *)
(* initialize() or clear(): every step of encryptNote, decryptNote,        *)
(* encryptImage, decryptImage, encryptLabel, decryptLabel and              *)
(* isInitialized, successful or failed, leaves them as they were; and the  *)
(* service holds at most one key, the one derived by the last initialize   *)
(* that completed, or none.                                                *)
(***************************************************************************)
C12_KeyChangedOnlyByLifecycle ==
    /\ [](\A s \in Services :
            \/ key[s] = NULL
            \/ lastLife[s].op = "initialize" /\ key[s] = KeyOf(lastLife[s]))
    /\ [][\A s \in Services :
            (key'[s] # key[s] \/ salt'[s] # salt[s]) => LifecycleStep(s)]_vars

\* a decryptLabel that was rejected by the cipher on a service that still
\* holds the key it held when the call was made
C12_Witness ==
    /\ last.pc = "done" /\ last.op = "decryptLabel"
    /\ FailedWith(last.out, OperationError)
    /\ last.held # NULL
    /\ key[last.svc] = last.held
    /\ lastLife[last.svc] = last.life

(***************************************************************************)
(* C13: whatever clear() or initialize() steps interleave with a call that *)
(* is in flight, every cipher operation of the call is performed with the  *)
(* one non-null key the service held when the call was made: the second    *)
(* cipher call of encryptNote / decryptNote gets the key the first one     *)
(* got, and never a cleared (null) key.                                    *)
(***************************************************************************)
C13_InFlightCallUsesStartKey ==
    (LastIsCryptoOp /\ last.held # NULL)
        => /\ last.k1 = last.held
           /\ last.k2 # NoCipherCall => (last.k2 # NULL /\ last.k2 = last.held)

\* out is a result the method op could return for (a1, a2) on a service that
\* holds k throughout and runs no other call
RanAlone(op, k, a1, a2, out) ==
    CASE op = "decryptNote" ->
           LET t == decryptString(a1, k)
               c == IF a2 = << >> THEN Ok(<< >>) ELSE decryptString(a2, k)
           IN out = IF ~t.ok THEN Err(t.err)
                    ELSE IF ~c.ok THEN Err(c.err) ELSE Ok(<< t.val, c.val >>)
      [] op = "decryptLabel" -> out = decryptString(a1, k)
      [] op = "decryptImage" -> out = decryptBinary(a1, k)
      [] op = "encryptLabel" -> \E iv \in IVPool : out = encryptString(a1, k, iv)
      [] op = "encryptImage" -> \E iv \in IVPool : out = encryptBinary(a1, k, iv)
      [] op = "encryptNote" ->
           \E iv1 \in IVPool : \E iv2 \in IVPool \ {iv1} :
               out = Ok(<< encryptString(a1, k, iv1).val, encryptString(a2, k, iv2).val >>)

(***************************************************************************)
(* C14: encrypt/decrypt calls that overlap on one Ready service do not     *)
(* affect each other: a call made on a Ready service, with no lifecycle    *)
(* change before it completes, returns a result it could have returned     *)
(* running alone under the held key, and a step of a suspended call        *)
(* changes neither the key, the salt nor any other call in flight.         *)
(***************************************************************************)
C14_ConcurrentCallsIndependent ==
    /\ []((LastIsCryptoOp /\ last.life.op = "initialize" /\ last.life2 = last.life)
            => RanAlone(last.op, KeyOf(last.life), last.a1, last.a2, last.out))
    /\ [][\A c \in Slots :
            (calls[c].op \in {"encryptNote", "decryptNote"} /\ calls'[c] # calls[c])
                => /\ UNCHANGED << key, salt, lastLife >>
                   /\ \A c2 \in Slots \ {c} : calls'[c2] = calls[c2]]_vars

\* an encryptNote completed while a decryptNote of a title it did not produce
\* was suspended at its await, on a service that stayed Ready
C14_Witness ==
    /\ last.pc = "done" /\ last.op = "encryptNote" /\ last.out.ok
    /\ last.life.op = "initialize" /\ last.life2 = last.life
    /\ calls[1].op = "none"
    /\ calls[2].op = "decryptNote" /\ calls[2].pc = "content"
    /\ calls[2].life = last.life
    /\ lastLife[last.svc] = last.life

(***************************************************************************)
(* Claims checked under SpecApp (continued)                                *)
(***************************************************************************)
\* every key the EncryptionService holds, is deriving, or has encrypted with
ServiceKeys ==
    ({ key[1], form.pend } \cup { encLog[i].key : i \in 1..Len(encLog) }) \ { NULL }

\* the text values written to persistent client storage by the auth store
PersistedStrings == { localStorage.user.email, localStorage.user.keySalt }

(***************************************************************************)
(* C15: the derived key is never persisted, serialized or sent: in every   *)
(* reachable state no field of any request body the client has sent, and   *)
(* no value the auth store has written to persistent storage, is the key   *)
(* the service holds (or held) in its key field; the persisted part of the *)
(* store is the user record and isAuthenticated only.                      *)
(***************************************************************************)
C15_KeyNeverLeavesService ==
    /\ DOMAIN localStorage = { "user", "isAuthenticated" }
    /\ \A k \in ServiceKeys :
          /\ \A f \in wire : f.value # k.material
          /\ \A v \in PersistedStrings : v # k.material

\* a note was saved and the user record persisted while the service holds a key
C15_Witness ==
    /\ key[1] # NULL
    /\ localStorage.isAuthenticated /\ localStorage.user.keySalt # << >>
    /\ \E f \in wire : f.field = "title"
    /\ \E f \in wire : f.field = "password"

(***************************************************************************)
(* C16: logging out always clears the key: after a handleLogout step the   *)
(* service holds no key (isInitialized() is false) and the auth store has  *)
(* user null, isAuthenticated false and isEncryptionReady false; and the   *)
(* key is cleared no later than the auth state is reset: in no state is    *)
(* the store logged out while the service still holds a key.               *)
(***************************************************************************)
C16_LogoutClearsKey ==
    /\ [][HandleLogout =>
            /\ ~isInitialized(key'[1])
            /\ auth' = [user |-> NoUser, isAuthenticated |-> FALSE,
                        isEncryptionReady |-> FALSE]]_vars
    /\ [](~auth.isAuthenticated => ~isInitialized(key[1]))

\* logged out after a session in which the key was used to save a note
C16_Witness ==
    /\ lastLife[1].op = "clear" /\ key[1] = NULL
    /\ ~auth.isAuthenticated /\ ~auth.isEncryptionReady /\ auth.user = NoUser
    /\ \E i \in 1..Len(encLog) : encLog[i].key # NULL
    /\ Len(db.notes) > 0

(***************************************************************************)
(* C17: each user has exactly one salt, generated at signup and never      *)
(* changed: no step of signup, login or a notes request removes or         *)
(* modifies a stored user row (its keySalt included), no two rows share an *)
(* email or an id, and every successful signup or login returns the        *)
(* keySalt stored in that user's row, which is the one signup generated.   *)
(***************************************************************************)
C17_SaltImmutable ==
    /\ [](\A u1 \in db.users, u2 \in db.users :
            (u1.email = u2.email \/ u1.id = u2.id) => u1 = u2)
    /\ [][/\ \A u \in db.users : u \in db'.users
          /\ (form.pc = "fetch" /\ form'.pc = "derive")
                => \E u \in db'.users : PublicUser(u) = form'.user]_vars
    /\ [](\A c \in HandlerSlots :
            LET h == srv.handlers[c]
            IN (h.pc = "responded" /\ h.route \in { "signup", "login" }
                   /\ h.resp.status = 200)
                  => \E u \in db.users : PublicUser(u) = h.resp.user)

\* a login, after a logout, returned the salt stored for the only user, who
\* signed up before the logout
C17_Witness ==
    /\ form.pc = "derive" /\ form.user.id = 1
    /\ lastLife[1].op = "clear"
    /\ Cardinality(db.users) = 1
    /\ \E u \in db.users : u.id = 1 /\ u.keySalt = form.user.keySalt
    /\ \E h \in srvHeld : h.keySalt = form.user.keySalt

(***************************************************************************)
(* Claims checked under SpecBlob                                           *)
(***************************************************************************)
\* the blob decodes, to fewer bytes than a nonce
DecodesShort(blob) ==
    base64ToArrayBuffer(blob).ok /\ Len(base64ToArrayBuffer(blob).val) < IV_LENGTH

(***************************************************************************)
(* C18: decryptString or decryptBinary called with a blob whose decoded    *)
(* length is shorter than the 12-byte nonce, the empty blob included,      *)
(* fails with the malformed-encoding error (InvalidCharacterError) or the  *)
(* decryption-failed error (OperationError): it returns no value and       *)
(* raises no other fault.                                                  *)
(***************************************************************************)
C18_ShortBlobRejected ==
    (probe.fn # "none" /\ DecodesShort(probe.blob))
        => probe.out \in { Err(InvalidCharacterError), Err(OperationError) }

\* decryptBinary rejected the empty blob
C18_Witness ==
    /\ probe.fn = "decryptBinary" /\ probe.blob = << >>
    /\ probe.out = Err(OperationError)

(***************************************************************************)
(* C19: every way decryption of a decodable blob fails (another key, a     *)
(* flipped bit in the nonce, the ciphertext or the tag, a truncated blob,  *)
(* a blob too short to hold a nonce) surfaces as one and the same error,   *)
(* OperationError, and such a call never returns a value when the decoded  *)
(* bytes differ from what encrypt produced or the key is another one.      *)
(***************************************************************************)
C19_SingleFailureKind ==
    (probe.fn # "none" /\ base64ToArrayBuffer(probe.blob).ok)
        => /\ ~probe.out.ok => probe.out.err = OperationError
           /\ (probe.cause \in {"tampered", "wrongKey"}
               \/ base64ToArrayBuffer(probe.blob) # base64ToArrayBuffer(enc.blob))
                 => ~probe.out.ok

\* a blob cut inside its tag was rejected with the error a wrong key gets
C19_Witness ==
    /\ probe.cause = "truncated" /\ probe.fn = "decryptString"
    /\ base64ToArrayBuffer(probe.blob).ok
    /\ Len(base64ToArrayBuffer(probe.blob).val) > IV_LENGTH + TAG_LENGTH
    /\ probe.out = Err(OperationError)

(***************************************************************************)
(* Claims checked under SpecCipher (continued)                             *)
(***************************************************************************)
\* the bytes the encrypt call recorded in enc handed to the cipher
EncInput == IF enc.fn = "encryptString" THEN TextEncoder_encode(enc.plain) ELSE enc.plain

\* what the decrypt call recorded in dec returns for the cipher's answer r
DecOutput(r) ==
    IF r.ok /\ dec.fn = "decryptString" THEN Ok(TextDecoder_decode(r.val)) ELSE r

(***************************************************************************)
(* C20: the blob returned by encryptString / encryptBinary is the base64   *)
(* text of the 12-byte nonce drawn for the call followed by the cipher     *)
(* output for that nonce (ciphertext and 16-byte tag), with nothing        *)
(* before, between or after; and decryptString / decryptBinary hand the    *)
(* cipher the first 12 decoded bytes as nonce and all the rest as input.   *)
(***************************************************************************)
C20_BlobLayout ==
    /\ enc.fn # "none" =>
          \E iv \in IVPool \ rng :
              LET out == subtle_encrypt(enc.key, iv, EncInput).val
                  decoded == atob(enc.blob)
              IN /\ Len(iv) = IV_LENGTH
                 /\ decoded = Ok(iv \o out)
                 /\ Len(decoded.val) = IV_LENGTH + Len(EncInput) + TAG_LENGTH
                 /\ enc.blob = btoa(iv \o out).val
    /\ (dec.fn # "none" /\ ~dec.tampered) =>
          LET decoded == atob(enc.blob).val
          IN dec.out = DecOutput(subtle_decrypt(dec.key, SubSeq(decoded, 1, IV_LENGTH),
                                     SubSeq(decoded, IV_LENGTH + 1, Len(decoded))))

\* "Hi" was encrypted to a blob of 12 + 2 + 16 bytes and decrypted again
C20_Witness ==
    /\ enc.fn = "encryptString" /\ enc.plain = Str_Hi
    /\ Len(atob(enc.blob).val) = IV_LENGTH + 2 + TAG_LENGTH
    /\ dec.fn = "decryptString" /\ ~dec.tampered /\ dec.out = Ok(Str_Hi)

(***************************************************************************)
(* Claims checked under SpecCodec                                          *)
(***************************************************************************)
\* C21: for every byte sequence b, the empty one and bytes 0x00 and 0x80..0xFF
\* included, base64ToArrayBuffer(arrayBufferToBase64(b)) succeeds and returns
\* b: the same length and the same bytes.
C21_Base64RoundTrip ==
    codec.op = "encode" =>
        /\ codec.out.ok
        /\ Len(codec.out.val) = Len(codec.bytes)
        /\ codec.out.val = codec.bytes

\* the bytes 0x00 0x80 0xFF came back from their base64 text
C21_Witness ==
    /\ codec.op = "encode" /\ codec.bytes = << 0, 128, 255 >>
    /\ codec.text = << 65, 73, 68, 47 >>
    /\ codec.out = Ok(<< 0, 128, 255 >>)

(***************************************************************************)
(* C22: base64ToArrayBuffer applied to text that is not a transport        *)
(* encoding (not the text arrayBufferToBase64 returns for some bytes)      *)
(* fails with InvalidCharacterError and returns no partial or truncated    *)
(* bytes; decryptString, decryptBinary and deriveKeyFromPassword fail with *)
(* the same error for such text, before the cipher or the KDF runs.        *)
(***************************************************************************)
C22_MalformedTextRejected ==
    codec.op = "decode" =>
        /\ codec.out.ok => arrayBufferToBase64(codec.out.val) = codec.text
        /\ ~codec.out.ok =>
              /\ codec.out = Err(InvalidCharacterError)
              /\ codec.str = codec.out /\ codec.bin = codec.out /\ codec.kdf = codec.out

(***************************************************************************)
(* C23: login against the user created by signup                           *)
(***************************************************************************)
\* a login response for an email under which a signup succeeded with password p
LoginAnswered(p) ==
    /\ srv.resp.route = "login"
    /\ [email |-> toLowerCase(srv.resp.email), password |-> p] \in srv.signedUp

\* the invalid-credentials answer (login route 26-29, 37-41)
LoginRefused == srv.resp.status = 401 /\ srv.resp.user = NoUser
\* the answer to a request that lacks a field (login route 14-19)
LoginRequired == srv.resp.status = 400 /\ srv.resp.user = NoUser

\* C23 (as stated): a login with the email of a signed-up user, in any letter
\* case, and password q succeeds exactly when q is the password p given at
\* signup; otherwise it answers 401 and returns no user and no salt.
C23_LoginIffSamePassword ==
    \A p \in SrvPasswords :
        LoginAnswered(p) =>
            IF srv.resp.password = p
            THEN srv.resp.status = 200 /\ srv.resp.user.keySalt \in generateSalt
            ELSE LoginRefused

\* C23 (amended): a login without an email or without a password is answered
\* 400 with no user and no salt, whoever is registered.  A login with the
\* email of a signed-up user and a non-empty password q succeeds exactly when
\* the salted hash of q equals the stored hash, which is exactly when q and p
\* have the same UTF-8 encoding; it then returns the user's stored salt, and
\* otherwise answers 401 with no user and no salt.
C23_LoginIffSameHash ==
    /\ srv.resp.route = "login" /\ (srv.resp.email = << >> \/ srv.resp.password = << >>)
           => LoginRequired
    /\ \A p \in SrvPasswords :
           LoginAnswered(p) =>
               LET user == CHOOSE u \in db.users : u.email = toLowerCase(srv.resp.email)
                   q == srv.resp.password
                   matches == hashPassword(q \o user.keySalt) = user.passwordHash
               IN /\ p # << >>
                  /\ user.passwordHash = hashPassword(p \o user.keySalt)
                  /\ matches <=> TextEncoder_encode(q) = TextEncoder_encode(p)
                  /\ IF q = << >> THEN LoginRequired
                     ELSE IF matches
                     THEN srv.resp.status = 200 /\ srv.resp.user = PublicUser(user)
                     ELSE LoginRefused

\* signup as A@x with "\uD800password", login as a@x with "\uDC00password": 200
C23_Witness ==
    /\ LoginAnswered(Pw_HighSurrogate)
    /\ srv.resp.email = Email_ax
    /\ srv.resp.password = Pw_LowSurrogate
    /\ srv.resp.status = 200
    /\ srv.resp.user.keySalt \in generateSalt

(***************************************************************************)
(* C27: soft delete                                                        *)
(***************************************************************************)
\* the handler of route r in slot c answers in this step
Answers(c, r) ==
    /\ srv.handlers[c].route = r /\ srv'.handlers[c] = NoHandler /\ srv'.resp.route = r
\* a step that answers GET /api/notes
GetAnswered == \E c \in HandlerSlots : Answers(c, "GET")
\* a step that answers DELETE /api/notes/[id] for note i with success
DeleteSucceeded(i) ==
    /\ \E c \in HandlerSlots : Answers(c, "DELETE")
    /\ srv'.resp.status = 200 /\ srv'.resp.id = i

\* C27: once DELETE /api/notes/[id] has succeeded for a note, the note's row
\* is flagged deleted; no later step clears the flag or removes the row; and
\* no GET /api/notes answer, for any user, contains a flagged note.
C27_DeletedNeverListed ==
    [][ \A i \in DOMAIN db.notes :
           /\ DeleteSucceeded(i) => db'.notes[i].isDeleted
           /\ db.notes[i].isDeleted =>
                 /\ i \in DOMAIN db'.notes
                 /\ db'.notes[i].isDeleted
                 /\ db'.notes[i].id = i /\ db'.notes[i].userId = db.notes[i].userId
                 /\ GetAnswered =>
                       \A k \in DOMAIN srv'.resp.notes : srv'.resp.notes[k].id # i ]_vars

\* note 1 of user 1 was deleted, its row is kept, and the GET for user 1 that
\* was answered after the DELETE lists no note
C27_Witness ==
    /\ Len(db.notes) = 1
    /\ db.notes[1].userId = 1 /\ db.notes[1].isDeleted /\ db.notes[1].title = Str_Hi
    /\ srv.resp.route = "GET" /\ srv.resp.status = 200 /\ srv.resp.id = 1
    /\ srv.resp.notes = << >>

(***************************************************************************)
(* C28: concurrent PUTs that replace a note's images                       *)
(***************************************************************************)
NoPutInFlight == \A c \in HandlerSlots : srv.handlers[c].route # "PUT"
\* the images arrays carried by the PUT requests made for note i
PutImagesFor(i) == { r.images : r \in { q \in srv.putImages : q.id = i } }

\* C28: whenever no PUT is in flight, a note for which PUT requests with an
\* images array were made stores exactly the images of one of those requests.
C28_ImagesOfOneRequest ==
    NoPutInFlight =>
        \A i \in DOMAIN db.notes :
            PutImagesFor(i) # {} => db.notes[i].images \in PutImagesFor(i)

(***************************************************************************)
(* C25: clear() against an initialize() that is still in flight            *)
(***************************************************************************)
\* the last lifecycle operation that took effect on service s is clear()
Cleared(s) == lastLife[s].op = "clear"

\* C25: a service on which clear() has returned holds no key, and the only
\* step that gives it a key again is the completion of an initialize() call
\* that was invoked on the cleared service, not one invoked before the clear().
C25_ClearedUntilLaterInitialize ==
    /\ [](\A s \in Services : Cleared(s) => ~isInitialized(key[s]))
    /\ [][ \A s \in Services :
              Cleared(s) /\ isInitialized(key'[s]) =>
                  /\ last'.op = "initialize" /\ last'.svc = s
                  /\ last'.life.op = "clear" ]_vars

(***************************************************************************)
(* C26: overlapping initialize() calls                                     *)
(***************************************************************************)
\* call d is an initialize() that completes in this step, no other
\* initialize() is in flight, and the call that completed just before it is an
\* initialize() on the same service that was invoked after d
LastOfOverlapping(d) ==
    /\ calls[d].op = "initialize" /\ calls'[d].op = "none"
    /\ \A e \in Slots \ {d} : calls[e].op # "initialize"
    /\ last.op = "initialize" /\ last.svc = calls[d].svc /\ last.out.ok
    /\ last.at < calls[d].at

\* C26: when the last of several overlapping initialize() calls completes,
\* the service holds the key derived from the arguments of the most recently
\* invoked one, whatever the order in which the derivations finish.
C26_KeyOfLatestInitialize ==
    [][ \A d \in Slots :
           LastOfOverlapping(d) => key'[calls[d].svc] = last.pend ]_vars

(***************************************************************************)
(* C24: what Home renders, and what a page reload restores                 *)
(***************************************************************************)
\* the handleSaveNote in slot t issues its next encryptImage call in this step
EncryptImageIssuedBy(t) ==
    /\ tasks[t].kind = "save" /\ tasks[t].pc = "images"
    /\ Len(tasks[t].encryptedImages) < Len(tasks[t].note.images)
    /\ tasks'[t] # tasks[t] /\ budget' = budget
EncryptImageIssued == \E t \in TaskSlots : EncryptImageIssuedBy(t)

\* C24: the notes grid is shown only while isAuthenticated and
\* isEncryptionReady are both true, and every encrypt call issued by its
\* handlers is issued while they are both true.
C24_CallsOnlyWhileGridShown ==
    /\ [](NotesGridShown <=> auth.isAuthenticated /\ auth.isEncryptionReady)
    /\ [][EncryptImageIssued => NotesGridShown]_vars

(***************************************************************************)
(* C30: image selection against removals and reorders made meanwhile       *)
(***************************************************************************)
\* handleImageSelect completes in this step with setImages
SelectCompleted ==
    editor.pc = "resize" /\ editor'.pc = "idle" /\ editor'.newImages # << >>

Ids(images) == { images[i].id : i \in DOMAIN images }

\* C30: when handleImageSelect completes, the image list is the list as it
\* stood immediately before with the new images appended: no image absent
\* from the list before the completion other than the new ones appears in
\* it, and every order field equals the position of its image, 0..n-1.
C30_SelectionAppendsToCurrentList ==
    [][ SelectCompleted =>
           /\ [i \in DOMAIN editor'.images |-> editor'.images[i].id] =
                 [i \in DOMAIN editor.images |-> editor.images[i].id]
                    \o [i \in DOMAIN editor'.newImages |-> editor'.newImages[i].id]
           /\ Ids(editor'.images) \subseteq Ids(editor.images) \cup Ids(editor'.newImages)
           /\ \A i \in DOMAIN editor'.images : editor'.images[i].order = i - 1 ]_vars

(***************************************************************************)
(* C29: the auth store's flags                                             *)
(***************************************************************************)
\* C29: in every state the store reaches through setUser, setEncryptionReady
\* and logout, isAuthenticated is true exactly when user is non-null, and
\* isEncryptionReady implies isAuthenticated; every setUser call leaves
\* isEncryptionReady false.
C29_StoreFlagsConsistent ==
    /\ [](auth.isAuthenticated <=> auth.user # NoUser)
    /\ [](auth.isEncryptionReady => auth.isAuthenticated)
    /\ [][last'.op = "setUser" /\ budget' < budget => ~auth'.isEncryptionReady]_vars

=============================================================================
